---- MODULE Spec2Model ----
(***************************************************************************)
(* Model of the plan sub-command of orbit (src/src/commands/plan.rs):      *)
(* Plan::run with the selection of the top-level entity and of the         *)
(* testbench (detect_bench, detect_top), the cross-check of the two, the   *)
(* lock file, the ordering of the HDL graph and the blueprint and .env     *)
(* files.  The HDL graph is a sequence of nodes (index = insertion order)  *)
(* and a set of edges <<dependency, user>> between node indices.           *)
(***************************************************************************)
EXTENDS Naturals, Integers, Sequences, FiniteSets, TLC

(* ---- bounds of the model ---- *)
MaxNodes == 3

MaxFiles == 3

(* Option::None for a node index and for a unit name *)
None == 0

(* Identifier::new_working(): the working library *)
Work == "work"

(* the libraries a file node can be tagged with *)
Libs == {"work", "lib1"}

(* Option::None for the library prefix of a dependency *)
NoLib == ""

(* the primary design units that become graph nodes and matter to the      *)
(* selection: an entity (with or without ports) or a package / context     *)
Symbols ==
    { [sym |-> "Entity", is_testbench |-> FALSE],
      [sym |-> "Entity", is_testbench |-> TRUE],
      [sym |-> "Package", is_testbench |-> FALSE] }

(* unit names are small integers; the names --top and --bench may give *)
Names == {1, 2, 3}

VARIABLES
    plan,           \* the Plan struct: top, bench, all, only_lock, clean
    pc,             \* position inside Plan::run
    nodes,          \* current_graph: sequence of HdlNode (with its key)
    edges,          \* current_graph: set of <<from, to>> index pairs
    top_a,          \* run's first `top`: the natural top of detect_bench
    bench_a,        \* run's first `bench`: the bench of detect_bench
    top,            \* run's `top` after detect_top: Option<usize>
    bench,          \* run's `bench` after detect_top: Option<usize>
    err,            \* the error run returned (kind "None" while there is none)
    lock_written,   \* the lock file was written by this run
    min_order,      \* the order of node indices chosen for emission
    blueprint,      \* the HDL lines of blueprint.tsv: the files, in order
    blueprint_written,
    env,            \* the .env file: empty until written
    ip_files,       \* build_full_graph's input: the files, each with its library
    component_pairs,\* build_full_graph's map from entity name to library
    sub_nodes,      \* the architectures and configurations held aside
    bodies,         \* the package bodies held aside
    invocation,     \* what run is given besides the Plan: force, the plugin,
                    \* whether the lock on disk is usable, the files of the
                    \* current directory
    environment,    \* the environment `orbit env` assembled last: empty
                    \* until the command is run
    source,         \* tokenize's `s`: the text of a VHDL file
    chars,          \* tokenize's `chars`: what is left of the source
    loc,            \* tokenize's `loc`: the Position reached
    tokens,         \* tokenize's `tokens`, each with its position
    returned,       \* how far tokenize is: "no" while it reads, then "yes",
                    \* or "panic" when it panicked
    id0,            \* the left identifier of a comparison
    id1,            \* the right identifier of a comparison
    compared,       \* what eq and ne gave for id0 and id1; empty before
    build_path,     \* the build directory on disk: "missing", "stale" (there
                    \* before the run) or "created" (made by the run)
    args,           \* the command line: the program name, then the arguments
    cli,            \* the Cli struct: tokens and opt_store
    answer,         \* what the last call on the Cli returned
    served,         \* the indices of the arguments next_uarg has returned
    asked,          \* the flags and options check_flag and check_option were
                    \* called for
    table,          \* the VersionTable given to format_version_table
    rows            \* the body of the table it made: a row for a version

(* the variables only build_full_graph writes *)
build_vars == <<ip_files, component_pairs, sub_nodes, bodies>>

(* the variables of the VHDL tokenizer and of the identifier comparison *)
vhdl_vars == <<source, chars, loc, tokens, returned, id0, id1, compared>>

(* the variables of the command-line parser *)
cli_vars == <<args, cli, answer, served, asked>>

(* the variables of the version table of probe *)
probe_vars == <<table, rows>>

vars == <<plan, pc, nodes, edges, top_a, bench_a, top, bench, err,
          lock_written, min_order, blueprint, blueprint_written, env,
          ip_files, component_pairs, sub_nodes, bodies, invocation, environment,
          source, chars, loc, tokens, returned, id0, id1, compared, build_path,
          args, cli, answer, served, asked, table, rows>>

(* ---- errors ---- *)
NoError == [kind |-> "None", what |-> "", ids |-> {}]

PlanError(kind, id) == [kind |-> kind, what |-> "", ids |-> {id}]

Ambiguous(what, ids) == [kind |-> "Ambiguous", what |-> what, ids |-> ids]

(* results of detect_bench / detect_top: Ok((top, bench)), Err(e) or a panic *)
Ok(t, b) == [tag |-> "Ok", top |-> t, bench |-> b, err |-> NoError]

Err(e) == [tag |-> "Err", top |-> None, bench |-> None, err |-> e]

Panic == [tag |-> "Panic", top |-> None, bench |-> None, err |-> NoError]

(* ---- the graph ---- *)
Indices(ns) == 1..Len(ns)

successors(es, n) == { e[2] : e \in { x \in es : x[1] = n } }

predecessors(es, n) == { e[1] : e \in { x \in es : x[2] = n } }

get_node_by_key(ns, lib, name) ==
    IF \E i \in Indices(ns) : ns[i].lib = lib /\ ns[i].name = name
    THEN CHOOSE i \in Indices(ns) : ns[i].lib = lib /\ ns[i].name = name
    ELSE None

(* shallow_graph without the filter on the library *)
shallow_graph_unfiltered(ns, lib) == Indices(ns)

(* the nodes of the working library: the keys of shallow_graph *)
shallow_graph(ns, lib) == { i \in Indices(ns) : ns[i].lib = lib }

(* the roots of the restriction of the graph to `within`: the nodes that  *)
(* no node of the restriction uses (edges run from a dependency to its     *)
(* user, so a testbench is the root of the design it tests)                *)
find_root(es, within) ==
    { i \in within : successors(es, i) \cap within = {} }

as_entity(ns, i) == ns[i].sym = "Entity"

is_testbench(ns, i) == ns[i].is_testbench

names_of(ns, is) == { ns[i].name : i \in is }

(* ---- Plan::detect_bench ---- *)
(* detect_bench searching the roots although --bench names a testbench *)
detect_bench_searches_roots(self, ns, es) ==
    LET roots == find_root(es, shallow_graph(ns, Work))
        n == get_node_by_key(ns, Work, self.bench) IN
    IF self.bench # None /\ n = None
    THEN Err(PlanError("UnknownEntity", self.bench))
    ELSE IF self.bench # None /\ ~as_entity(ns, n)
    THEN Err(PlanError("BadEntity", self.bench))
    ELSE IF self.bench # None /\ ~is_testbench(ns, n)
    THEN Err(PlanError("BadTestbench", self.bench))
    ELSE IF self.bench # None /\ Cardinality(roots) <= 1 THEN Ok(None, n)
    ELSE IF self.bench = None /\ self.top # None THEN Ok(None, None)
    ELSE IF Cardinality(roots) = 1
         THEN LET r == CHOOSE r \in roots : TRUE IN
              IF as_entity(ns, r)
              THEN IF is_testbench(ns, r) THEN Ok(None, r) ELSE Ok(r, None)
              ELSE Ok(None, None)
         ELSE IF roots = {} THEN Ok(None, None)
              ELSE Err(Ambiguous("roots", names_of(ns, roots)))

(* detect_bench taking a single testbench root for the natural top *)
detect_bench_root_is_top(self, ns, es) ==
    IF self.bench # None
    THEN LET n == get_node_by_key(ns, Work, self.bench) IN
         IF n = None THEN Err(PlanError("UnknownEntity", self.bench))
         ELSE IF as_entity(ns, n)
              THEN IF ~is_testbench(ns, n)
                   THEN Err(PlanError("BadTestbench", self.bench))
                   ELSE Ok(None, n)
              ELSE Err(PlanError("BadEntity", self.bench))
    ELSE IF self.top = None
    THEN LET roots == find_root(es, shallow_graph(ns, Work)) IN
         IF Cardinality(roots) = 1
         THEN LET n == CHOOSE r \in roots : TRUE IN
              IF as_entity(ns, n) THEN Ok(n, None) ELSE Ok(None, None)
         ELSE IF roots = {} THEN Ok(None, None)
              ELSE Err(Ambiguous("roots", names_of(ns, roots)))
    ELSE Ok(None, None)

detect_bench(self, ns, es) ==
    IF self.bench # None
    THEN LET n == get_node_by_key(ns, Work, self.bench) IN
         IF n = None THEN Err(PlanError("UnknownEntity", self.bench))
         ELSE IF as_entity(ns, n)
              THEN IF ~is_testbench(ns, n)
                   THEN Err(PlanError("BadTestbench", self.bench))
                   ELSE Ok(None, n)
              ELSE Err(PlanError("BadEntity", self.bench))
    ELSE IF self.top = None
    THEN LET roots == find_root(es, shallow_graph(ns, Work)) IN
         IF Cardinality(roots) = 1
         THEN LET n == CHOOSE r \in roots : TRUE IN
              IF as_entity(ns, n)
              THEN IF is_testbench(ns, n) THEN Ok(None, n) ELSE Ok(n, None)
              ELSE Ok(None, None)
         ELSE IF roots = {} THEN Ok(None, None)
              ELSE Err(Ambiguous("roots", names_of(ns, roots)))
    ELSE Ok(None, None)

(* ---- Plan::detect_top ---- *)
(* the unit --top names, looked up by name in every library *)
node_by_name(ns, name) ==
    IF \E i \in Indices(ns) : ns[i].name = name
    THEN CHOOSE i \in Indices(ns) : ns[i].name = name
    ELSE None

(* detect_top resolving --top by its name in any library *)
detect_top_any_library(self, ns, es, natural_top, b) ==
    IF self.top # None
    THEN LET n == node_by_name(ns, self.top) IN
         IF n = None THEN Err(PlanError("UnknownEntity", self.top))
         ELSE IF ~as_entity(ns, n) THEN Err(PlanError("BadEntity", self.top))
         ELSE IF is_testbench(ns, n) THEN Err(PlanError("BadTop", self.top))
         ELSE IF b = None
              THEN \* as_entity().unwrap() on every successor
                   IF \E s \in successors(es, n) : ~as_entity(ns, s) THEN Panic
                   ELSE LET benches == { s \in successors(es, n) : is_testbench(ns, s) } IN
                        IF benches = {} THEN Ok(n, None)
                        ELSE IF Cardinality(benches) = 1
                             THEN Ok(n, CHOOSE s \in benches : TRUE)
                             ELSE Err(Ambiguous("testbenches", names_of(ns, benches)))
              ELSE Ok(n, b)
    ELSE IF natural_top # None THEN Ok(natural_top, b)
    ELSE IF b # None
         THEN LET entities == { p \in predecessors(es, b) : as_entity(ns, p) } IN
              IF entities = {}
              THEN Err(PlanError("TestbenchNoTest", ns[b].name))
              ELSE IF Cardinality(entities) = 1
                   THEN Ok(CHOOSE p \in entities : TRUE, b)
                   ELSE Err(Ambiguous("entities instantiated in the testbench",
                                      names_of(ns, entities)))
         ELSE Ok(None, None)

(* detect_top counting every predecessor of the bench, entity or not *)
detect_top_counts_all(self, ns, es, natural_top, b) ==
    IF self.top # None
    THEN LET n == get_node_by_key(ns, Work, self.top) IN
         IF n = None THEN Err(PlanError("UnknownEntity", self.top))
         ELSE IF ~as_entity(ns, n) THEN Err(PlanError("BadEntity", self.top))
         ELSE IF is_testbench(ns, n) THEN Err(PlanError("BadTop", self.top))
         ELSE IF b = None
              THEN \* as_entity().unwrap() on every successor
                   IF \E s \in successors(es, n) : ~as_entity(ns, s) THEN Panic
                   ELSE LET benches == { s \in successors(es, n) : is_testbench(ns, s) } IN
                        IF benches = {} THEN Ok(n, None)
                        ELSE IF Cardinality(benches) = 1
                             THEN Ok(n, CHOOSE s \in benches : TRUE)
                             ELSE Err(Ambiguous("testbenches", names_of(ns, benches)))
              ELSE Ok(n, b)
    ELSE IF natural_top # None THEN Ok(natural_top, b)
    ELSE IF b # None
         THEN LET entities == predecessors(es, b) IN
              IF entities = {}
              THEN Err(PlanError("TestbenchNoTest", ns[b].name))
              ELSE IF Cardinality(entities) = 1
                   THEN Ok(CHOOSE p \in entities : TRUE, b)
                   ELSE Err(Ambiguous("entities instantiated in the testbench",
                                      names_of(ns, entities)))
         ELSE Ok(None, None)

detect_top(self, ns, es, natural_top, b) ==
    IF self.top # None
    THEN LET n == get_node_by_key(ns, Work, self.top) IN
         IF n = None THEN Err(PlanError("UnknownEntity", self.top))
         ELSE IF ~as_entity(ns, n) THEN Err(PlanError("BadEntity", self.top))
         ELSE IF is_testbench(ns, n) THEN Err(PlanError("BadTop", self.top))
         ELSE IF b = None
              THEN \* as_entity().unwrap() on every successor
                   IF \E s \in successors(es, n) : ~as_entity(ns, s) THEN Panic
                   ELSE LET benches == { s \in successors(es, n) : is_testbench(ns, s) } IN
                        IF benches = {} THEN Ok(n, None)
                        ELSE IF Cardinality(benches) = 1
                             THEN Ok(n, CHOOSE s \in benches : TRUE)
                             ELSE Err(Ambiguous("testbenches", names_of(ns, benches)))
              ELSE Ok(n, b)
    ELSE IF natural_top # None THEN Ok(natural_top, b)
    ELSE IF b # None
         THEN LET entities == { p \in predecessors(es, b) : as_entity(ns, p) } IN
              IF entities = {}
              THEN Err(PlanError("TestbenchNoTest", ns[b].name))
              ELSE IF Cardinality(entities) = 1
                   THEN Ok(CHOOSE p \in entities : TRUE, b)
                   ELSE Err(Ambiguous("entities instantiated in the testbench",
                                      names_of(ns, entities)))
         ELSE Ok(None, None)

(* ---- ordering of the graph ---- *)
(* Kahn's algorithm over the node set `todo`, ties broken by insertion     *)
(* order: the next node is the least one whose dependencies inside the     *)
(* set were all emitted                                                    *)
RECURSIVE kahn(_, _, _)
kahn(es, todo, done) ==
    LET ready == { i \in todo : (predecessors(es, i) \cap todo) = {} } IN
    IF ready = {} THEN done
    ELSE LET i == CHOOSE r \in ready : \A q \in ready : r <= q IN
         kahn(es, todo \ {i}, Append(done, i))

topological_sort(ns, es) == kahn(es, Indices(ns), << >>)

(* the nodes `n` depends on, transitively, and `n` itself *)
RECURSIVE ancestors(_, _)
ancestors(es, seen) ==
    LET more == UNION { predecessors(es, i) : i \in seen } IN
    IF more \subseteq seen THEN seen ELSE ancestors(es, seen \cup more)

minimal_topological_sort(es, n) == kahn(es, ancestors(es, {n}), << >>)

(* ---- the input: what build_full_graph makes of the files on disk ---- *)
(* the file list names a unit after the units it depends on *)
Forward(n) == { p \in (1..n) \X (1..n) : p[1] < p[2] }

(* a unit of the working library, or an entity of a dependency's library *)
Units ==
    (Symbols \X {Work}) \cup ({ s \in Symbols : s.sym = "Entity" } \X (Libs \ {Work}))

(* the graphs of the model: the units of the working library and at most *)
(* one entity of another library                                         *)
Graphs ==
    { g \in UNION { [ns : [1..n -> Units], es : SUBSET Forward(n)] : n \in 0..MaxNodes } :
        Cardinality({ i \in 1..Len(g.ns) : g.ns[i][2] # Work }) <= 1 }

(* a file of the file list: its path and the library it is tagged with *)
IpFileNode(path, lib) == [file |-> path, library |-> lib]

(* the node of a unit: each unit of these graphs sits in a file of its own *)
HdlNode(i, sl) ==
    [lib |-> sl[2], name |-> i, sym |-> sl[1].sym,
     is_testbench |-> sl[1].is_testbench, files |-> <<IpFileNode(i, sl[2])>>]

(* no source is being read and no identifiers are compared *)
NoSource ==
    /\ source = << >>
    /\ chars = << >>
    /\ loc = <<1, 0>>
    /\ tokens = << >>
    /\ returned = "no"
    /\ id0 = [extended |-> FALSE, text |-> << >>]
    /\ id1 = [extended |-> FALSE, text |-> << >>]
    /\ compared = << >>

(* a Flag or an Optional: its name and its switch, if it has one *)
Flag(name, switch) == [name |-> name, switch |-> switch]

(* what a call on the Cli returned: `tag` is "Ok" or the CliError, and the *)
(* value is the bool of check_flag, the number parsed by check_option and  *)
(* check_positional, the text of next_uarg or of UnexpectedValue, or the   *)
(* texts of get_remainder; `some` tells Some from None                     *)
Answer(op, who, tag) ==
    [op |-> op, who |-> who, tag |-> tag, some |-> FALSE, bool |-> FALSE,
     number |-> 0, text |-> << >>, texts |-> << >>]

(* before any call on the Cli *)
NoAnswer == Answer("", Flag(<< >>, << >>), "")

(* no command line read and no version table made *)
NoCli ==
    /\ args = << >>
    /\ cli = [tokens |-> << >>, opt_store |-> << >>]
    /\ answer = NoAnswer
    /\ served = << >>
    /\ asked = {}
    /\ table = << >>
    /\ rows = << >>

(* ---- filesets and plugins ---- *)
(* a fileset: a name and a glob pattern, the pattern a sequence of pieces  *)
(* of text, "*" and the variables "orbit.top" and "orbit.bench"            *)
Fileset(name, pattern) == [name |-> name, pattern |-> pattern]

(* a plugin: its alias and its filesets; Option::None is the plugin         *)
(* without alias                                                           *)
Plugin(alias, fsets) == [alias |-> alias, filesets |-> fsets]

NoPlugin == Plugin("", << >>)

(* the files a current directory can hold, by number: the name of each as  *)
(* pieces of text.  File 1 is named after unit 1, file 2 has the bare      *)
(* extension, file 4 is named after unit 2                                 *)
DirectoryFiles ==
    << <<"1", ".xdc">>, <<".xdc">>, <<"run", ".tcl">>, <<"2", ".do">> >>

(* the filesets of the model: on the command line the constraints of the   *)
(* top and the macros of the bench, in the plugin the Tcl scripts           *)
CommandLineFilesets ==
    { << >>,
      <<Fileset("CONSTRAINTS", <<"orbit.top", ".xdc">>)>>,
      <<Fileset("MACROS", <<"orbit.bench", ".do">>),
        Fileset("CONSTRAINTS", <<"orbit.top", ".xdc">>)>> }

Plugins ==
    { NoPlugin,
      Plugin("tool", <<Fileset("SCRIPTS", <<"*", ".tcl">>),
                       Fileset("PINS", <<"orbit.top", ".ucf">>)>>) }

(* the name of a unit as text, the empty string for no unit *)
name_text(n) == IF n = None THEN "" ELSE ToString(n)

(* VariableTable of run: orbit.bench and orbit.top *)
VariableTable(top_name, bench_name) ==
    [v \in {"orbit.bench", "orbit.top"} |->
        IF v = "orbit.top" THEN name_text(top_name) ELSE name_text(bench_name)]

(* template::substitute: each variable gives way to its value *)
RECURSIVE substitute(_, _)
substitute(pattern, vtable) ==
    IF pattern = << >> THEN << >>
    ELSE LET piece == Head(pattern)
             text == IF piece \in DOMAIN vtable
                     THEN (IF vtable[piece] = "" THEN << >> ELSE <<vtable[piece]>>)
                     ELSE <<piece>> IN
         text \o substitute(Tail(pattern), vtable)

(* glob matching of a file name: "*" stands for any run of pieces *)
RECURSIVE glob_match(_, _)
glob_match(pattern, name) ==
    IF pattern = << >> THEN name = << >>
    ELSE IF Head(pattern) = "*"
    THEN \E k \in 0..Len(name) : glob_match(Tail(pattern), SubSeq(name, k + 1, Len(name)))
    ELSE /\ name # << >>
         /\ Head(name) = Head(pattern)
         /\ glob_match(Tail(pattern), Tail(name))

(* Fileset::collect_files: the files of the listing the pattern matches *)
collect_files(fset, current_files) ==
    LET Matches(f) == glob_match(fset.pattern, DirectoryFiles[f]) IN
    SelectSeq(current_files, Matches)

(* Fileset::to_blueprint_string: the line of a matched file *)
to_blueprint_string(fset, f) == [tag |-> fset.name, library |-> fset.name, file |-> f]

(* the lines of a list of filesets, each pattern substituted first *)
RECURSIVE fileset_lines(_, _, _)
fileset_lines(fsets, vtable, current_files) ==
    IF fsets = << >> THEN << >>
    ELSE LET fset == Fileset(Head(fsets).name, substitute(Head(fsets).pattern, vtable))
             found == collect_files(fset, current_files) IN
         [k \in 1..Len(found) |-> to_blueprint_string(fset, found[k])]
         \o fileset_lines(Tail(fsets), vtable, current_files)

(* ---- Plan::run ---- *)
Init ==
    /\ plan \in [top : {None} \cup Names, bench : {None} \cup Names,
                 all : BOOLEAN, only_lock : BOOLEAN, clean : {FALSE},
                 filesets : {<< >>}]
    /\ invocation = [force |-> FALSE, can_use_lock |-> FALSE,
                     plug |-> NoPlugin, current_files |-> << >>]
    /\ environment = {}
    /\ build_path = "missing"
    /\ NoCli
    /\ NoSource
    /\ pc = "ip_graph"
    /\ nodes = << >>
    /\ edges = {}
    /\ top_a = None
    /\ bench_a = None
    /\ top = None
    /\ bench = None
    /\ err = NoError
    /\ lock_written = FALSE
    /\ min_order = << >>
    /\ blueprint = << >>
    /\ blueprint_written = FALSE
    /\ env = {}
    /\ ip_files = << >>
    /\ component_pairs = [n \in Names |-> NoLib]
    /\ sub_nodes = << >>
    /\ bodies = << >>

(* --clean: the build directory, when there is one, is removed *)
clean_never(self, path) == path

clean(self, path) ==
    IF self.clean = TRUE /\ path # "missing" THEN "missing" ELSE path

(* run's first step, before the IP graph is computed *)
Clean ==
    /\ pc = "clean"
    /\ build_path' = clean(plan, build_path)
    /\ pc' = "ip_graph"
    /\ UNCHANGED <<build_vars, vhdl_vars, cli_vars, probe_vars, invocation, environment, plan, nodes, edges, top_a,
                   bench_a, top, bench, err, lock_written, min_order, blueprint,
                   blueprint_written, env>>

(* Plan::write_lockfile: writes unless the lock is usable and not forced *)
write_lockfile_unless_usable(can_use_lock, force) == can_use_lock = FALSE

write_lockfile(can_use_lock, force) == (can_use_lock = FALSE) \/ (force = TRUE)

(* run's test of only_lock: the run returns right after the lock file *)
returns_after_lock_never(self) == FALSE

returns_after_lock(self) == self.only_lock = TRUE

(* --lock-only: write the lock file and return *)
LockOnly ==
    /\ pc = "ip_graph"
    /\ returns_after_lock(plan)
    /\ lock_written' = write_lockfile(invocation.can_use_lock, invocation.force)
    /\ pc' = "done"
    /\ UNCHANGED <<build_vars, vhdl_vars, cli_vars, probe_vars, build_path, invocation, environment, plan, nodes, edges, top_a, bench_a, top, bench, err,
                   min_order, blueprint, blueprint_written, env>>

BuildFullGraph ==
    /\ pc = "ip_graph"
    /\ ~returns_after_lock(plan)
    /\ \E g \in Graphs :
         /\ nodes' = [i \in 1..Len(g.ns) |-> HdlNode(i, g.ns[i])]
         /\ edges' = g.es
    /\ pc' = "detect_bench"
    /\ UNCHANGED <<build_vars, vhdl_vars, cli_vars, probe_vars, build_path, invocation, environment, plan, top_a, bench_a, top, bench, err, lock_written,
                   min_order, blueprint, blueprint_written, env>>

(* the match around detect_bench letting --all swallow every error *)
run_detect_bench_any_error(self, r) ==
    IF r.tag = "Err" /\ self.all = TRUE THEN Ok(None, None)
    ELSE r

(* the match around detect_bench tolerating an ambiguity without --all *)
run_detect_bench_tolerant(self, r) ==
    IF r.tag = "Err" /\ r.err.kind = "Ambiguous" THEN Ok(None, None) ELSE r

(* the match around detect_bench in run *)
run_detect_bench(self, r) ==
    IF r.tag = "Err" /\ r.err.kind = "Ambiguous" /\ self.all = TRUE
    THEN Ok(None, None)
    ELSE r

DetectBench ==
    /\ pc = "detect_bench"
    /\ LET r == run_detect_bench(plan, detect_bench(plan, nodes, edges)) IN
         /\ top_a' = r.top
         /\ bench_a' = r.bench
         /\ err' = r.err
         /\ pc' = IF r.tag = "Ok" THEN "detect_top" ELSE "err_detect_bench"
    /\ UNCHANGED <<build_vars, vhdl_vars, cli_vars, probe_vars, build_path, invocation, environment, plan, nodes, edges, top, bench, lock_written, min_order,
                   blueprint, blueprint_written, env>>

(* the match around detect_top returning the ambiguity also with --all *)
run_detect_top_strict(self, r, t, b) == r

(* the match around detect_top in run *)
run_detect_top(self, r, t, b) ==
    IF r.tag = "Err" /\ r.err.kind = "Ambiguous" /\ self.all = TRUE
    THEN Ok(t, b)
    ELSE r

DetectTop ==
    /\ pc = "detect_top"
    /\ LET r == run_detect_top(plan, detect_top(plan, nodes, edges, top_a, bench_a),
                               top_a, bench_a) IN
         /\ top' = r.top
         /\ bench' = r.bench
         /\ err' = r.err
         /\ pc' = CASE r.tag = "Ok" -> "cross_check"
                    [] r.tag = "Err" -> "err_detect_top"
                    [] OTHER -> "panic_detect_top"
    /\ UNCHANGED <<build_vars, vhdl_vars, cli_vars, probe_vars, build_path, invocation, environment, plan, nodes, edges, top_a, bench_a, lock_written, min_order,
                   blueprint, blueprint_written, env>>

(* the check of top and bench left out *)
cross_check_skipped(self, es, t, b) == "write_lockfile"

(* the check that the top is instantiated in the testbench *)
cross_check(self, es, t, b) ==
    IF b # None /\ self.all = FALSE
    THEN IF t = None THEN "panic_cross_check"
         ELSE IF b \notin successors(es, t) THEN "err_cross_check"
         ELSE "write_lockfile"
    ELSE "write_lockfile"

CrossCheck ==
    /\ pc = "cross_check"
    /\ pc' = cross_check(plan, edges, top, bench)
    /\ err' = IF pc' = "err_cross_check"
              THEN [kind |-> "TopNotInBench", what |-> "",
                    ids |-> {nodes[top].name, nodes[bench].name}]
              ELSE err
    /\ UNCHANGED <<build_vars, vhdl_vars, cli_vars, probe_vars, build_path, invocation, environment, plan, nodes, edges, top_a, bench_a, top, bench,
                   lock_written, min_order, blueprint, blueprint_written, env>>

WriteLockfile ==
    /\ pc = "write_lockfile"
    /\ lock_written' = write_lockfile(invocation.can_use_lock, invocation.force)
    /\ pc' = "sort"
    /\ UNCHANGED <<build_vars, vhdl_vars, cli_vars, probe_vars, build_path, invocation, environment, plan, nodes, edges, top_a, bench_a, top, bench, err,
                   min_order, blueprint, blueprint_written, env>>

(* min_order of run; top.unwrap() panics when neither index is set *)
compute_min_order_top_first(self, ns, es, t, b) ==
    IF self.all = TRUE THEN [tag |-> "Ok", order |-> topological_sort(ns, es)]
    ELSE IF t # None THEN [tag |-> "Ok", order |-> minimal_topological_sort(es, t)]
    ELSE IF b # None THEN [tag |-> "Ok", order |-> minimal_topological_sort(es, b)]
    ELSE [tag |-> "Panic", order |-> << >>]

compute_min_order(self, ns, es, t, b) ==
    IF self.all = TRUE THEN [tag |-> "Ok", order |-> topological_sort(ns, es)]
    ELSE IF b # None THEN [tag |-> "Ok", order |-> minimal_topological_sort(es, b)]
    ELSE IF t # None THEN [tag |-> "Ok", order |-> minimal_topological_sort(es, t)]
    ELSE [tag |-> "Panic", order |-> << >>]

Sort ==
    /\ pc = "sort"
    /\ LET r == compute_min_order(plan, nodes, edges, top, bench) IN
         /\ min_order' = r.order
         /\ pc' = IF r.tag = "Ok" THEN "blueprint" ELSE "panic_sort"
    /\ UNCHANGED <<build_vars, vhdl_vars, cli_vars, probe_vars, build_path, invocation, environment, plan, nodes, edges, top_a, bench_a, top, bench, err,
                   lock_written, blueprint, blueprint_written, env>>

(* file_order: the files of each node of the order, in stored order *)
RECURSIVE file_order_unique(_, _)
file_order_unique(ns, order) ==
    IF order = << >> THEN << >>
    ELSE LET rest == file_order_unique(ns, Tail(order))
             New(f) == \A k \in 1..Len(rest) : rest[k] # f IN
         SelectSeq(ns[Head(order)].files, New) \o rest

RECURSIVE file_order(_, _)
file_order(ns, order) ==
    IF order = << >> THEN << >>
    ELSE ns[Head(order)].files \o file_order(ns, Tail(order))

(* fileset::is_rtl classifies a file by its name: the paths with an even *)
(* number are the ones named as simulation files                          *)
is_rtl(f) == f.file % 2 = 1

(* the blueprint line of a file of the order *)
hdl_line(f) ==
    [tag |-> IF is_rtl(f) THEN "VHDL-RTL" ELSE "VHDL-SIM",
     library |-> f.library, file |-> f.file]

name_or_empty(ns, i) == IF i = None THEN None ELSE ns[i].name

(* blueprint_data of run: the lines of the command-line filesets, of the   *)
(* plugin's filesets, then of the files of the order                       *)
blueprint_data_plugin_first(p, inv, ns, order, t, b) ==
    LET vtable == VariableTable(name_or_empty(ns, t), name_or_empty(ns, b))
        files == file_order(ns, order) IN
    fileset_lines(inv.plug.filesets, vtable, inv.current_files)
    \o fileset_lines(p.filesets, vtable, inv.current_files)
    \o [k \in 1..Len(files) |-> hdl_line(files[k])]

blueprint_data(p, inv, ns, order, t, b) ==
    LET vtable == VariableTable(name_or_empty(ns, t), name_or_empty(ns, b))
        files == file_order(ns, order) IN
    fileset_lines(p.filesets, vtable, inv.current_files)
    \o fileset_lines(inv.plug.filesets, vtable, inv.current_files)
    \o [k \in 1..Len(files) |-> hdl_line(files[k])]

(* create_dir_all when the build directory does not exist *)
create_dir_all(path) == IF path = "missing" THEN "created" ELSE path

WriteBlueprint ==
    /\ pc = "blueprint"
    /\ blueprint' = blueprint_data(plan, invocation, nodes, min_order, top, bench)
    /\ blueprint_written' = TRUE
    /\ build_path' = create_dir_all(build_path)
    /\ pc' = "env"
    /\ UNCHANGED <<build_vars, vhdl_vars, cli_vars, probe_vars, invocation, environment, plan, nodes, edges, top_a, bench_a, top, bench, err,
                   lock_written, min_order, env>>

(* envs of run: the two names, and the alias of the plugin when one is given *)
envs_without_plugin(inv, top_name, bench_name) ==
    { <<"ORBIT_TOP", top_name>>, <<"ORBIT_BENCH", bench_name>> }

envs(inv, top_name, bench_name) ==
    { <<"ORBIT_TOP", top_name>>, <<"ORBIT_BENCH", bench_name>> }
    \cup (IF inv.plug # NoPlugin THEN { <<"ORBIT_PLUGIN", inv.plug.alias>> } ELSE {})

SaveEnvironment ==
    /\ pc = "env"
    /\ env' = envs(invocation, name_or_empty(nodes, top), name_or_empty(nodes, bench))
    /\ pc' = "done"
    /\ UNCHANGED <<build_vars, vhdl_vars, cli_vars, probe_vars, build_path, invocation, environment, plan, nodes, edges, top_a, bench_a, top, bench, err,
                   lock_written, min_order, blueprint, blueprint_written>>

Next ==
    \/ LockOnly
    \/ BuildFullGraph
    \/ DetectBench
    \/ DetectTop
    \/ CrossCheck
    \/ WriteLockfile
    \/ Sort
    \/ WriteBlueprint
    \/ SaveEnvironment

Spec == Init /\ [][Next]_vars

(* ---- build_full_graph: the HDL graph of a list of files ---- *)
(* a dependency as the symbols record it: a name with an optional library *)
CompoundIdentifier(prefix, suffix) == [prefix |-> prefix, suffix |-> suffix]

(* the design units a file can hold; an architecture stands for a         *)
(* configuration too and a package for a context: the builder treats them  *)
(* alike.  `name` is the unit's own name, or its owner's for an            *)
(* architecture and a package body                                         *)
Entity(n) == [kind |-> "Entity", name |-> n, edges |-> {}, refs |-> {}]

Package(n, rs) == [kind |-> "Package", name |-> n, edges |-> {}, refs |-> rs]

Architecture(owner, es, rs) ==
    [kind |-> "Architecture", name |-> owner, edges |-> es, refs |-> rs]

PackageBody(owner, rs) ==
    [kind |-> "PackageBody", name |-> owner, edges |-> {}, refs |-> rs]

(* the source files of the model, by path: what the parser finds in each  *)
(*  1  entity 1                                                            *)
(*  2  entities 1 and 2, 2's architecture instantiating component 1        *)
(*  3  entity 1 and its architecture, with `use work.1` and component 2    *)
(*  4  an architecture of 1 instantiating entity lib1.2, with `use work.3` *)
(*  5  package 3 referring to work.1                                       *)
(*  6  the body of package 3 referring to work.2                           *)
(*  7  a further architecture of 1, without dependencies                   *)
Sources ==
    << <<Entity(1)>>,
       <<Entity(1), Entity(2),
         Architecture(2, {CompoundIdentifier(NoLib, 1)}, {})>>,
       <<Entity(1),
         Architecture(1, {CompoundIdentifier(NoLib, 2)}, {CompoundIdentifier(Work, 1)})>>,
       <<Architecture(1, {CompoundIdentifier("lib1", 2)}, {CompoundIdentifier(Work, 3)})>>,
       <<Package(3, {CompoundIdentifier(Work, 1)})>>,
       <<PackageBody(3, {CompoundIdentifier(Work, 2)})>>,
       <<Architecture(1, {}, {})>> >>

IpFiles == { IpFileNode(p, l) : p \in DOMAIN Sources, l \in Libs }

(* the file lists of the model *)
FileLists == UNION { [1..n -> IpFiles] : n \in 0..MaxFiles }

(* VHDLParser::read(..).into_symbols() of each file of the list *)
symbols(fs) == [k \in DOMAIN fs |-> [file |-> fs[k], symbols |-> Sources[fs[k].file]]]

NoPairs == [n \in Names |-> NoLib]

NewGraph ==
    [nodes |-> << >>, edges |-> {}, component_pairs |-> NoPairs,
     sub_nodes |-> << >>, bodies |-> << >>]

HdlNode_new(f, u) ==
    [lib |-> f.library, name |-> u.name, sym |-> u.kind, files |-> <<f>>, refs |-> u.refs]

add_file_always(files, f) == Append(files, f)

add_file(files, f) ==
    IF \E k \in 1..Len(files) : files[k] = f THEN files ELSE Append(files, f)

(* GraphMap::add_node: the node is stored under its key *)
add_node(ns, node) ==
    LET i == get_node_by_key(ns, node.lib, node.name) IN
    IF i = None THEN Append(ns, node) ELSE [ns EXCEPT ![i] = node]

(* GraphMap::add_edge_by_key: an edge between two existing nodes, once *)
add_edge_by_key(ns, es, src, dst) ==
    LET a == get_node_by_key(ns, src.prefix, src.suffix)
        b == get_node_by_key(ns, dst.prefix, dst.suffix) IN
    IF a # None /\ b # None THEN es \cup {<<a, b>>} ELSE es

(* add_edge_by_key for each dependency of a list *)
RECURSIVE add_edges_by_key(_, _, _, _)
add_edges_by_key(ns, es, deps, dst) ==
    IF deps = {} THEN es
    ELSE LET d == CHOOSE x \in deps : TRUE IN
         add_edges_by_key(ns, add_edge_by_key(ns, es, d, dst), deps \ {d}, dst)

(* pass 1, one symbol: a primary unit becomes a node, an entity is also    *)
(* entered in component_pairs, the secondary units are held aside          *)
read_symbol_first_writer(g, f, u) ==
    IF u.kind = "Entity"
    THEN [g EXCEPT !.component_pairs[u.name] = IF @ = NoLib THEN f.library ELSE @,
                   !.nodes = add_node(@, HdlNode_new(f, u))]
    ELSE IF u.kind = "Package"
    THEN [g EXCEPT !.nodes = add_node(@, HdlNode_new(f, u))]
    ELSE IF u.kind = "Architecture"
    THEN [g EXCEPT !.sub_nodes = Append(@, [lib |-> f.library, sub |-> u, file |-> f])]
    ELSE [g EXCEPT !.bodies = Append(@, [lib |-> f.library, body |-> u])]

read_symbol(g, f, u) ==
    IF u.kind = "Entity"
    THEN [g EXCEPT !.component_pairs[u.name] = f.library,
                   !.nodes = add_node(@, HdlNode_new(f, u))]
    ELSE IF u.kind = "Package"
    THEN [g EXCEPT !.nodes = add_node(@, HdlNode_new(f, u))]
    ELSE IF u.kind = "Architecture"
    THEN [g EXCEPT !.sub_nodes = Append(@, [lib |-> f.library, sub |-> u, file |-> f])]
    ELSE [g EXCEPT !.bodies = Append(@, [lib |-> f.library, body |-> u])]

RECURSIVE read_symbols(_, _, _)
read_symbols(g, f, us) ==
    IF us = << >> THEN g
    ELSE read_symbols(read_symbol(g, f, Head(us)), f, Tail(us))

(* pass 1: the files in input order, the symbols of each in source order *)
RECURSIVE read_files(_, _)
read_files(g, ps) ==
    IF ps = << >> THEN g
    ELSE read_files(read_symbols(g, Head(ps).file, Head(ps).symbols), Tail(ps))

(* pass 2, one body: its references go to the package of its own library *)
attach_body_any_library(ns, b) ==
    LET owners == { i \in Indices(ns) : ns[i].name = b.body.name } IN
    [i \in Indices(ns) |->
        IF i \in owners THEN [ns[i] EXCEPT !.refs = @ \cup b.body.refs] ELSE ns[i]]

attach_body(ns, b) ==
    LET i == get_node_by_key(ns, b.lib, b.body.name) IN
    IF i = None THEN ns ELSE [ns EXCEPT ![i].refs = @ \cup b.body.refs]

RECURSIVE attach_bodies(_, _)
attach_bodies(ns, bs) ==
    IF bs = << >> THEN ns ELSE attach_bodies(attach_body(ns, Head(bs)), Tail(bs))

package_bodies(g) == [g EXCEPT !.nodes = attach_bodies(@, g.bodies)]

(* the keys an architecture's dependencies stand for: a dependency without *)
(* prefix is looked up in component_pairs and dropped when it is not there *)
resolve_ignores_prefix(pairs, deps) ==
    { CompoundIdentifier(pairs[d.suffix], d.suffix) :
         d \in { x \in deps : pairs[x.suffix] # NoLib } }

resolve(pairs, deps) ==
    { d \in deps : d.prefix # NoLib }
    \cup { CompoundIdentifier(pairs[d.suffix], d.suffix) :
             d \in { x \in deps : x.prefix = NoLib /\ pairs[x.suffix] # NoLib } }

(* pass 3, one sub-unit: its file and its dependencies go to its owner *)
attach_sub_unit_in_work(g, s) ==
    LET i == get_node_by_key(g.nodes, Work, s.sub.name)
        node_name == CompoundIdentifier(Work, s.sub.name) IN
    IF i = None THEN g
    ELSE [g EXCEPT !.nodes[i].files = add_file(@, s.file),
                   !.edges = add_edges_by_key(g.nodes,
                                add_edges_by_key(g.nodes, @,
                                    resolve(g.component_pairs, s.sub.edges), node_name),
                                s.sub.refs, node_name)]

attach_sub_unit(g, s) ==
    LET i == get_node_by_key(g.nodes, s.lib, s.sub.name)
        node_name == CompoundIdentifier(s.lib, s.sub.name) IN
    IF i = None THEN g
    ELSE [g EXCEPT !.nodes[i].files = add_file(@, s.file),
                   !.edges = add_edges_by_key(g.nodes,
                                add_edges_by_key(g.nodes, @,
                                    resolve(g.component_pairs, s.sub.edges), node_name),
                                s.sub.refs, node_name)]

RECURSIVE attach_sub_units(_, _)
attach_sub_units(g, ss) ==
    IF ss = << >> THEN g ELSE attach_sub_units(attach_sub_unit(g, Head(ss)), Tail(ss))

sub_units(g) == attach_sub_units(g, g.sub_nodes)

(* pass 4: an edge to each node from every unit its symbol refers to *)
RECURSIVE node_references(_, _, _)
node_references(ns, es, i) ==
    IF i > Len(ns) THEN es
    ELSE node_references(ns,
            add_edges_by_key(ns, es, ns[i].refs, CompoundIdentifier(ns[i].lib, ns[i].name)),
            i + 1)

references(g) == [g EXCEPT !.edges = node_references(g.nodes, @, 1)]

build_full_graph(fs) ==
    references(sub_units(package_bodies(read_files(NewGraph, symbols(fs)))))

(* ---- the builder, pass by pass ---- *)
InitBuild ==
    /\ plan \in [top : {None}, bench : {None}, all : BOOLEAN, only_lock : {FALSE},
                 clean : {FALSE}, filesets : {<< >>}]
    /\ invocation = [force |-> FALSE, can_use_lock |-> FALSE,
                     plug |-> NoPlugin, current_files |-> << >>]
    /\ environment = {}
    /\ build_path = "missing"
    /\ NoCli
    /\ NoSource
    /\ ip_files \in FileLists
    /\ pc = "read_files"
    /\ nodes = << >>
    /\ edges = {}
    /\ component_pairs = NoPairs
    /\ sub_nodes = << >>
    /\ bodies = << >>
    /\ top_a = None
    /\ bench_a = None
    /\ top = None
    /\ bench = None
    /\ err = NoError
    /\ lock_written = FALSE
    /\ min_order = << >>
    /\ blueprint = << >>
    /\ blueprint_written = FALSE
    /\ env = {}

(* the graph under construction *)
graph_map ==
    [nodes |-> nodes, edges |-> edges, component_pairs |-> component_pairs,
     sub_nodes |-> sub_nodes, bodies |-> bodies]

run_unchanged ==
    <<plan, vhdl_vars, cli_vars, probe_vars, build_path, invocation, environment, ip_files, top_a, bench_a, top, bench, err, lock_written,
      min_order, blueprint, blueprint_written, env>>

ReadFiles ==
    /\ pc = "read_files"
    /\ LET g == read_files(graph_map, symbols(ip_files)) IN
         /\ nodes' = g.nodes
         /\ component_pairs' = g.component_pairs
         /\ sub_nodes' = g.sub_nodes
         /\ bodies' = g.bodies
    /\ pc' = "package_bodies"
    /\ UNCHANGED <<edges, run_unchanged>>

PackageBodies ==
    /\ pc = "package_bodies"
    /\ nodes' = package_bodies(graph_map).nodes
    /\ pc' = "sub_units"
    /\ UNCHANGED <<edges, component_pairs, sub_nodes, bodies, run_unchanged>>

SubUnits ==
    /\ pc = "sub_units"
    /\ LET g == sub_units(graph_map) IN
         /\ nodes' = g.nodes
         /\ edges' = g.edges
    /\ pc' = "references"
    /\ UNCHANGED <<component_pairs, sub_nodes, bodies, run_unchanged>>

References ==
    /\ pc = "references"
    /\ edges' = references(graph_map).edges
    /\ pc' = "select"
    /\ UNCHANGED <<nodes, component_pairs, sub_nodes, bodies, run_unchanged>>

(* detect_bench and detect_top, whatever they select: any node, or none,  *)
(* as top; the order of a plan with --all does not look at the selection, *)
(* so none is made there                                                   *)
SelectUnits ==
    /\ pc = "select"
    /\ \E t \in (IF plan.all THEN {None} ELSE {None} \cup Indices(nodes)) : top' = t
    /\ pc' = "sort"
    /\ UNCHANGED <<build_vars, vhdl_vars, cli_vars, probe_vars, build_path, invocation, environment, plan, nodes, edges, top_a, bench_a, bench, err,
                   lock_written, min_order, blueprint, blueprint_written, env>>

NextBuild ==
    \/ ReadFiles
    \/ PackageBodies
    \/ SubUnits
    \/ References
    \/ SelectUnits
    \/ Sort
    \/ WriteBlueprint

SpecBuild == InitBuild /\ [][NextBuild]_vars

(* ---- the files a plan writes, and `orbit env` ---- *)
BLUEPRINT_FILE == "blueprint.tsv"

(* the variables Env::exec takes from the context and the process; their   *)
(* values do not depend on the plan and are left blank                     *)
ContextVariables ==
    { "ORBIT_HOME", "ORBIT_CACHE", "ORBIT_BUILD_DIR", "ORBIT_DEV_PATH",
      "ORBIT_IP_PATH", "ORBIT_STORE", "EDITOR", "NO_COLOR" }

(* Environment::from_env_file: the variables of the .env of the build      *)
(* directory join the environment                                          *)
from_env_file(e, dotenv) == e \cup dotenv

(* Env::exec: the environment `orbit env` assembles *)
env_exec(in_ip, windows, dotenv) ==
    LET base == { <<k, "">> : k \in ContextVariables }
                \cup { <<"ORBIT_BLUEPRINT", BLUEPRINT_FILE>> }
        platform == IF windows THEN { <<"ORBIT_WIN_LITERAL_CMD", "">> } ELSE {} IN
    IF in_ip THEN from_env_file(base \cup platform, dotenv) ELSE base \cup platform

(* the graphs of the plans that write files: at most two units of the      *)
(* working library                                                         *)
WorkGraphs ==
    UNION { [ns : [1..n -> Symbols \X {Work}], es : SUBSET Forward(n)] : n \in 0..2 }

(* the listings of the current directory *)
Listings == { << >>, <<1, 2, 3, 4>> }

InitWrite ==
    /\ plan \in [top : {None, 1}, bench : {None, 2}, all : BOOLEAN,
                 only_lock : BOOLEAN, clean : BOOLEAN,
                 filesets : CommandLineFilesets]
    /\ invocation \in [force : BOOLEAN, can_use_lock : BOOLEAN,
                       plug : Plugins, current_files : Listings]
    /\ environment = {}
    /\ build_path \in {"missing", "stale"}
    /\ NoCli
    /\ NoSource
    /\ pc = "clean"
    /\ nodes = << >>
    /\ edges = {}
    /\ top_a = None
    /\ bench_a = None
    /\ top = None
    /\ bench = None
    /\ err = NoError
    /\ lock_written = FALSE
    /\ min_order = << >>
    /\ blueprint = << >>
    /\ blueprint_written = FALSE
    /\ env = {}
    /\ ip_files = << >>
    /\ component_pairs = [n \in Names |-> NoLib]
    /\ sub_nodes = << >>
    /\ bodies = << >>

(* build_ip_file_list and build_full_graph on a small tree *)
BuildWorkGraph ==
    /\ pc = "ip_graph"
    /\ ~returns_after_lock(plan)
    /\ \E g \in WorkGraphs :
         /\ nodes' = [i \in 1..Len(g.ns) |-> HdlNode(i, g.ns[i])]
         /\ edges' = g.es
    /\ pc' = "detect_bench"
    /\ UNCHANGED <<build_vars, vhdl_vars, cli_vars, probe_vars, build_path, invocation, environment, plan, top_a, bench_a, top, bench, err,
                   lock_written, min_order, blueprint, blueprint_written, env>>

(* `orbit env`, run once the plan has returned *)
EnvExec ==
    /\ pc = "done"
    /\ \E in_ip, windows \in BOOLEAN :
         environment' = env_exec(in_ip, windows, env)
    /\ UNCHANGED <<build_vars, vhdl_vars, cli_vars, probe_vars, build_path, invocation, plan, pc, nodes, edges, top_a, bench_a, top, bench,
                   err, lock_written, min_order, blueprint, blueprint_written, env>>

NextWrite ==
    \/ Clean
    \/ LockOnly
    \/ BuildWorkGraph
    \/ DetectBench
    \/ DetectTop
    \/ CrossCheck
    \/ WriteLockfile
    \/ Sort
    \/ WriteBlueprint
    \/ SaveEnvironment
    \/ EnvExec

SpecWrite == InitWrite /\ [][NextWrite]_vars

(* ---- the VHDL tokenizer ---- *)
(* A character is its code point and a text the sequence of its            *)
(* characters; an Option is the empty sequence for None and a sequence of  *)
(* one for Some.                                                           *)
(* the constants of char_set *)
ASCII_ZERO == 48

DOUBLE_QUOTE == 34

BACKSLASH == 92

STAR == 42

DASH == 45

FWDSLASH == 47

UNDERLINE == 95

SINGLE_QUOTE == 39

DOT == 46

HASH == 35

COLON == 58

PLUS == 43

(* char_set::is_space: space and nbsp *)
is_space(c) == c = 32 \/ c = 160

(* char_set::is_digit: '0'..='9' *)
is_digit(c) == c \in 48..57

(* char_set::is_upper: 'A'..='Z' and the Latin-1 upper-case letters,       *)
(* without the multiplication sign                                         *)
is_upper(c) == c # 215 /\ (c \in 65..90 \/ c \in 192..222)

(* char_set::is_newline *)
is_newline(c) == c = 10

(* char_set::is_special: "#&'()*+,-./:;<=>?@[]_`| *)
is_special(c) ==
    c \in {34, 35, 38, 39, 40, 41, 42, 43, 44, 45, 46, 47,
           58, 59, 60, 61, 62, 63, 64, 91, 93, 95, 96, 124}

(* char_set::is_other_special: !$%\^{} ~- and the Latin-1 signs *)
is_other_special(c) ==
    \/ c \in {33, 36, 37, 92, 94, 123, 125, 32, 126, 45}
    \/ c \in 161..191
    \/ c = 215
    \/ c = 247

(* char_set::is_lower: 'a'..='z' and the Latin-1 lower-case letters,       *)
(* without the division sign                                               *)
is_lower(c) == c # 247 /\ (c \in 97..122 \/ c \in 223..255)

(* char_set::is_letter *)
is_letter(c) == is_lower(c) \/ is_upper(c)

(* char_set::is_graphic *)
is_graphic(c) ==
    is_lower(c) \/ is_upper(c) \/ is_digit(c)
        \/ is_special(c) \/ is_other_special(c) \/ is_space(c)

(* char::is_ascii_alphabetic *)
is_ascii_alphabetic(c) == c \in 65..90 \/ c \in 97..122

(* char::to_ascii_lowercase *)
to_ascii_lowercase(c) == IF c \in 65..90 THEN c + 32 ELSE c

(* char::to_lowercase on the characters of Latin-1: the lower-case letter  *)
(* of an upper-case letter, every other character itself                   *)
to_lowercase(c) == IF c \in 65..90 \/ (c \in 192..222 /\ c # 215) THEN c + 32 ELSE c

(* str::len of one character: the bytes of its UTF-8 encoding *)
len_utf8(c) == IF c < 128 THEN 1 ELSE 2

(* Position::new: line 1, col 0 *)
Position(line, col) == <<line, col>>

(* Position::next_col *)
next_col(p) == Position(p[1], p[2] + 1)

(* Position::next_line: the next line, the column back at 0 *)
next_line_keeps_col(p) == Position(p[1] + 1, p[2])

next_line(p) == Position(p[1] + 1, 0)

(* VHDLToken::match_delimiter: the delimiter a text is, if any *)
Delimiters ==
    { <<<<38>>, "Ampersand">>,
      <<<<39>>, "SingleQuote">>,
      <<<<40>>, "ParenL">>,
      <<<<41>>, "ParenR">>,
      <<<<42>>, "Star">>,
      <<<<43>>, "Plus">>,
      <<<<44>>, "Comma">>,
      <<<<45>>, "Dash">>,
      <<<<46>>, "Dot">>,
      <<<<47>>, "FwdSlash">>,
      <<<<58>>, "Colon">>,
      <<<<59>>, "Terminator">>,
      <<<<60>>, "Lt">>,
      <<<<61>>, "Eq">>,
      <<<<62>>, "Gt">>,
      <<<<96>>, "BackTick">>,
      <<<<33>>, "Pipe">>,
      <<<<124>>, "Pipe">>,
      <<<<91>>, "BrackL">>,
      <<<<93>>, "BrackR">>,
      <<<<63>>, "Question">>,
      <<<<64>>, "AtSymbol">>,
      <<<<61, 62>>, "Arrow">>,
      <<<<42, 42>>, "DoubleStar">>,
      <<<<58, 61>>, "VarAssign">>,
      <<<<47, 61>>, "Inequality">>,
      <<<<62, 61>>, "GTE">>,
      <<<<60, 61>>, "SigAssign">>,
      <<<<60, 62>>, "Box">>,
      <<<<60, 61, 62>>, "SigAssoc">>,
      <<<<63, 63>>, "CondConv">>,
      <<<<63, 61>>, "MatchEQ">>,
      <<<<63, 47, 61>>, "MatchNE">>,
      <<<<63, 60>>, "MatchLT">>,
      <<<<63, 60, 61>>, "MatchLTE">>,
      <<<<63, 62>>, "MatchGT">>,
      <<<<63, 62, 61>>, "MatchGTE">>,
      <<<<60, 60>>, "DoubleLT">>,
      <<<<62, 62>>, "DoubleGT">> }

match_delimiter(s) ==
    IF \E d \in Delimiters : d[1] = s
    THEN <<(CHOOSE d \in Delimiters : d[1] = s)[2]>>
    ELSE << >>

(* VHDLToken::match_keyword: the keyword a text is in ascii lower case, if any *)
Keywords ==
    { <<<<97, 98, 115>>, "Abs">>,
      <<<<97, 99, 99, 101, 115, 115>>, "Access">>,
      <<<<97, 102, 116, 101, 114>>, "After">>,
      <<<<97, 108, 105, 97, 115>>, "Alias">>,
      <<<<97, 108, 108>>, "All">>,
      <<<<97, 110, 100>>, "And">>,
      <<<<97, 114, 99, 104, 105, 116, 101, 99, 116, 117, 114, 101>>, "Architecture">>,
      <<<<97, 114, 114, 97, 121>>, "Array">>,
      <<<<97, 115, 115, 101, 114, 116>>, "Assert">>,
      <<<<97, 115, 115, 117, 109, 101>>, "Assume">>,
      <<<<97, 116, 116, 114, 105, 98, 117, 116, 101>>, "Attribute">>,
      <<<<98, 101, 103, 105, 110>>, "Begin">>,
      <<<<98, 108, 111, 99, 107>>, "Block">>,
      <<<<98, 111, 100, 121>>, "Body">>,
      <<<<98, 117, 102, 102, 101, 114>>, "Buffer">>,
      <<<<98, 117, 115>>, "Bus">>,
      <<<<99, 97, 115, 101>>, "Case">>,
      <<<<99, 111, 109, 112, 111, 110, 101, 110, 116>>, "Component">>,
      <<<<99, 111, 110, 102, 105, 103, 117, 114, 97, 116, 105, 111, 110>>, "Configuration">>,
      <<<<99, 111, 110, 115, 116, 97, 110, 116>>, "Constant">>,
      <<<<99, 111, 110, 116, 101, 120, 116>>, "Context">>,
      <<<<99, 111, 118, 101, 114>>, "Cover">>,
      <<<<100, 101, 102, 97, 117, 108, 116>>, "Default">>,
      <<<<100, 105, 115, 99, 111, 110, 110, 101, 99, 116>>, "Disconnect">>,
      <<<<100, 111, 119, 110, 116, 111>>, "Downto">>,
      <<<<101, 108, 115, 101>>, "Else">>,
      <<<<101, 108, 115, 105, 102>>, "Elsif">>,
      <<<<101, 110, 100>>, "End">>,
      <<<<101, 110, 116, 105, 116, 121>>, "Entity">>,
      <<<<101, 120, 105, 116>>, "Exit">>,
      <<<<102, 97, 105, 114, 110, 101, 115, 115>>, "Fairness">>,
      <<<<102, 105, 108, 101>>, "File">>,
      <<<<102, 111, 114>>, "For">>,
      <<<<102, 111, 114, 99, 101>>, "Force">>,
      <<<<102, 117, 110, 99, 116, 105, 111, 110>>, "Function">>,
      <<<<103, 101, 110, 101, 114, 97, 116, 101>>, "Generate">>,
      <<<<103, 101, 110, 101, 114, 105, 99>>, "Generic">>,
      <<<<103, 114, 111, 117, 112>>, "Group">>,
      <<<<103, 117, 97, 114, 100, 101, 100>>, "Guarded">>,
      <<<<105, 102>>, "If">>,
      <<<<105, 109, 112, 117, 114, 101>>, "Impure">>,
      <<<<105, 110>>, "In">>,
      <<<<105, 110, 101, 114, 116, 105, 97, 108>>, "Inertial">>,
      <<<<105, 110, 111, 117, 116>>, "Inout">>,
      <<<<105, 115>>, "Is">>,
      <<<<108, 97, 98, 101, 108>>, "Label">>,
      <<<<108, 105, 98, 114, 97, 114, 121>>, "Library">>,
      <<<<108, 105, 110, 107, 97, 103, 101>>, "Linkage">>,
      <<<<108, 105, 116, 101, 114, 97, 108>>, "Literal">>,
      <<<<108, 111, 111, 112>>, "Loop">>,
      <<<<109, 97, 112>>, "Map">>,
      <<<<109, 111, 100>>, "Mod">>,
      <<<<110, 97, 110, 100>>, "Nand">>,
      <<<<110, 101, 119>>, "New">>,
      <<<<110, 101, 120, 116>>, "Next">>,
      <<<<110, 111, 114>>, "Nor">>,
      <<<<110, 111, 116>>, "Not">>,
      <<<<110, 117, 108, 108>>, "Null">>,
      <<<<111, 102>>, "Of">>,
      <<<<111, 110>>, "On">>,
      <<<<111, 112, 101, 110>>, "Open">>,
      <<<<111, 114>>, "Or">>,
      <<<<111, 116, 104, 101, 114, 115>>, "Others">>,
      <<<<111, 117, 116>>, "Out">>,
      <<<<112, 97, 99, 107, 97, 103, 101>>, "Package">>,
      <<<<112, 97, 114, 97, 109, 101, 116, 101, 114>>, "Parameter">>,
      <<<<112, 111, 114, 116>>, "Port">>,
      <<<<112, 111, 115, 116, 112, 111, 110, 101, 100>>, "Postponed">>,
      <<<<112, 114, 105, 118, 97, 116, 101>>, "Private">>,
      <<<<112, 114, 111, 99, 101, 100, 117, 114, 101>>, "Procedure">>,
      <<<<112, 114, 111, 99, 101, 115, 115>>, "Process">>,
      <<<<112, 114, 111, 112, 101, 114, 116, 121>>, "Property">>,
      <<<<112, 114, 111, 116, 101, 99, 116, 101, 100>>, "Protected">>,
      <<<<112, 117, 114, 101>>, "Pure">>,
      <<<<114, 97, 110, 103, 101>>, "Range">>,
      <<<<114, 101, 99, 111, 114, 100>>, "Record">>,
      <<<<114, 101, 103, 105, 115, 116, 101, 114>>, "Register">>,
      <<<<114, 101, 106, 101, 99, 116>>, "Reject">>,
      <<<<114, 101, 108, 101, 97, 115, 101>>, "Release">>,
      <<<<114, 101, 109>>, "Rem">>,
      <<<<114, 101, 112, 111, 114, 116>>, "Report">>,
      <<<<114, 101, 115, 116, 114, 105, 99, 116>>, "Restrict">>,
      <<<<114, 101, 116, 117, 114, 110>>, "Return">>,
      <<<<114, 111, 108>>, "Rol">>,
      <<<<114, 111, 114>>, "Ror">>,
      <<<<115, 101, 108, 101, 99, 116>>, "Select">>,
      <<<<115, 101, 113, 117, 101, 110, 99, 101>>, "Sequence">>,
      <<<<115, 101, 118, 101, 114, 105, 116, 121>>, "Severity">>,
      <<<<115, 105, 103, 110, 97, 108>>, "Signal">>,
      <<<<115, 104, 97, 114, 101, 100>>, "Shared">>,
      <<<<115, 108, 97>>, "Sla">>,
      <<<<115, 108, 108>>, "Sll">>,
      <<<<115, 114, 97>>, "Sra">>,
      <<<<115, 114, 108>>, "Srl">>,
      <<<<115, 116, 114, 111, 110, 103>>, "Strong">>,
      <<<<115, 117, 98, 116, 121, 112, 101>>, "Subtype">>,
      <<<<116, 104, 101, 110>>, "Then">>,
      <<<<116, 111>>, "To">>,
      <<<<116, 114, 97, 110, 115, 112, 111, 114, 116>>, "Transport">>,
      <<<<116, 121, 112, 101>>, "Type">>,
      <<<<117, 110, 97, 102, 102, 101, 99, 116, 101, 100>>, "Unaffected">>,
      <<<<117, 110, 105, 116, 115>>, "Units">>,
      <<<<117, 110, 116, 105, 108>>, "Until">>,
      <<<<117, 115, 101>>, "Use">>,
      <<<<118, 97, 114, 105, 97, 98, 108, 101>>, "Variable">>,
      <<<<118, 105, 101, 119>>, "View">>,
      <<<<118, 109, 111, 100, 101>>, "Vmode">>,
      <<<<118, 112, 107, 103>>, "Vpkg">>,
      <<<<118, 112, 114, 111, 112>>, "Vprop">>,
      <<<<118, 117, 110, 105, 116>>, "Vunit">>,
      <<<<119, 97, 105, 116>>, "Wait">>,
      <<<<119, 104, 101, 110>>, "When">>,
      <<<<119, 104, 105, 108, 101>>, "While">>,
      <<<<119, 105, 116, 104>>, "With">>,
      <<<<120, 110, 111, 114>>, "Xnor">>,
      <<<<120, 111, 114>>, "Xor">> }

RECURSIVE lowercase_ascii(_)
lowercase_ascii(s) ==
    IF s = << >> THEN << >> ELSE <<to_ascii_lowercase(Head(s))>> \o lowercase_ascii(Tail(s))

match_keyword(s) ==
    LET low == lowercase_ascii(s) IN
    IF \E k \in Keywords : k[1] = low
    THEN <<(CHOOSE k \in Keywords : k[1] = low)[2]>>
    ELSE << >>

(* a VHDLToken: its variant and, where the variant holds one, its text;    *)
(* a BitStrLiteral has its base and its width too                          *)
VHDLToken(kind, text) == [kind |-> kind, text |-> text, base |-> "", width |-> << >>]

(* BitStrLiteral::new(b).literal(s): the width stays None *)
BitStrLiteral(b, s) == [kind |-> "BitStrLiteral", text |-> s, base |-> b, width |-> << >>]

(* Token::new *)
Token(ttype, position) == [position |-> position, ttype |-> ttype]

(* what a collector hands back: a token (Some), no token (None) or a       *)
(* panic, with the stream and the position it leaves                       *)
Collected(tag, tk, stream, l) == [tag |-> tag, tk |-> tk, chars |-> stream, loc |-> l]

Some(tk, stream, l) == Collected("Some", tk, stream, l)

Nothing(stream, l) == Collected("None", VHDLToken("", << >>), stream, l)

Panicked(stream, l) == Collected("Panic", VHDLToken("", << >>), stream, l)

(* an Option<VHDLToken> of match_delimiter as what collect_delimiter returns *)
Returned(op, stream, l) ==
    IF op = << >> THEN Nothing(stream, l) ELSE Some(VHDLToken(op[1], << >>), stream, l)

(* .expect("invalid token") *)
Expected(op, stream, l) ==
    IF op = << >> THEN Panicked(stream, l) ELSE Some(VHDLToken(op[1], << >>), stream, l)

(* collect_delimiter: the loop over the stream, `delim` being what was     *)
(* taken so far                                                            *)
RECURSIVE collect_delimiter_from(_, _, _)
collect_delimiter_from(delim, stream, l) ==
    IF stream = << >> THEN Returned(match_delimiter(delim), stream, l)
    ELSE LET c == Head(stream)
             longer == delim \o <<c>> IN
         CASE Len(delim) = 0 ->
                IF c \in {63, 60, 62, 47, 61, 42, 58}
                THEN collect_delimiter_from(<<c>>, Tail(stream), next_col(l))
                ELSE IF match_delimiter(<<c>>) # << >>
                THEN Returned(match_delimiter(<<c>>), Tail(stream), next_col(l))
                ELSE Nothing(stream, l)
           [] Len(delim) = 1 ->
                IF delim[1] = 63
                THEN IF c \in {47, 60, 62}
                     THEN collect_delimiter_from(longer, Tail(stream), next_col(l))
                     ELSE Expected(match_delimiter(delim), stream, l)
                ELSE IF delim[1] = 60
                THEN IF c = 61
                     THEN collect_delimiter_from(longer, Tail(stream), next_col(l))
                     ELSE Expected(match_delimiter(delim), stream, l)
                ELSE IF match_delimiter(longer) # << >>
                THEN Returned(match_delimiter(longer), Tail(stream), next_col(l))
                ELSE Returned(match_delimiter(delim), stream, l)
           [] Len(delim) = 2 ->
                IF match_delimiter(longer) # << >>
                THEN Returned(match_delimiter(longer), Tail(stream), next_col(l))
                ELSE Expected(match_delimiter(delim), stream, l)
           [] OTHER -> Panicked(stream, l)

(* collect_delimiter: c0 is an Option<char> *)
collect_delimiter(stream, l, c0) == collect_delimiter_from(c0, stream, l)

(* BaseSpec::from_str: the base specifier a text is in ascii lower case;   *)
(* None stands for its panic                                               *)
BaseSpecs ==
    { <<<<98>>, "B">>, <<<<111>>, "O">>, <<<<120>>, "X">>,
      <<<<117, 98>>, "UB">>, <<<<117, 111>>, "UO">>, <<<<117, 120>>, "UX">>,
      <<<<115, 98>>, "SB">>, <<<<115, 111>>, "SO">>, <<<<115, 120>>, "SX">>,
      <<<<100>>, "D">> }

from_str(s) ==
    LET low == lowercase_ascii(s) IN
    IF \E b \in BaseSpecs : b[1] = low
    THEN <<(CHOOSE b \in BaseSpecs : b[1] = low)[2]>>
    ELSE << >>

(* collect_identifier: the loop, `id` being the text taken so far and      *)
(* `bit_lit` the base once the opening quote was met                       *)
RECURSIVE collect_identifier_from(_, _, _, _, _)
collect_identifier_from(id, bit_lit, was_underline, stream, l) ==
    LET finish(rest, at) ==
            IF bit_lit # << >> THEN Some(BitStrLiteral(bit_lit[1], id), rest, at)
            ELSE IF match_keyword(id) # << >>
            THEN Some(VHDLToken(match_keyword(id)[1], << >>), rest, at)
            ELSE Some(VHDLToken("Identifier.Basic", id), rest, at) IN
    IF stream = << >> THEN finish(stream, l)
    ELSE LET c == Head(stream) IN
         IF \/ bit_lit = << >> /\ (is_letter(c) \/ c = UNDERLINE \/ is_digit(c))
            \/ bit_lit # << >> /\ c # DOUBLE_QUOTE /\ (is_graphic(c) \/ c = UNDERLINE)
         THEN IF c = UNDERLINE /\ was_underline THEN Panicked(stream, l)
              ELSE collect_identifier_from(id \o <<c>>, bit_lit, c = UNDERLINE,
                                           Tail(stream), next_col(l))
         ELSE IF c = DOUBLE_QUOTE
         THEN IF bit_lit = << >>
              THEN IF from_str(id) = << >> THEN Panicked(stream, l)
                   ELSE collect_identifier_from(<< >>, from_str(id), was_underline,
                                                Tail(stream), next_col(l))
              ELSE IF was_underline THEN Panicked(stream, l)
                   ELSE finish(Tail(stream), next_col(l))
         ELSE IF bit_lit # << >> THEN Panicked(stream, l)
              ELSE finish(stream, l)

collect_identifier(stream, l, c0) == collect_identifier_from(<<c0>>, << >>, FALSE, stream, l)

(* collect_comment: the text up to the end of the line *)
RECURSIVE collect_comment_from(_, _, _)
collect_comment_from(note, stream, l) ==
    IF stream = << >> \/ Head(stream) \in {11, 13, 10}
    THEN Some(VHDLToken("Comment.Single", note), stream, l)
    ELSE collect_comment_from(note \o <<Head(stream)>>, Tail(stream), next_col(l))

collect_comment(stream, l) == collect_comment_from(<< >>, Tail(stream), next_col(l))

(* collect_delim_comment: the text up to the closing star and slash *)
RECURSIVE collect_delim_comment_from(_, _, _)
collect_delim_comment_from(note, stream, l) ==
    IF stream = << >> THEN Some(VHDLToken("Comment.Delimited", note), stream, l)
    ELSE LET c == Head(stream)
             at == IF is_newline(c) THEN next_line(next_col(l)) ELSE next_col(l) IN
         IF c = STAR /\ Tail(stream) # << >> /\ Head(Tail(stream)) = FWDSLASH
         THEN Some(VHDLToken("Comment.Delimited", note), Tail(Tail(stream)), next_col(at))
         ELSE collect_delim_comment_from(note \o <<c>>, Tail(stream), at)

collect_delim_comment(stream, l) ==
    collect_delim_comment_from(<< >>, Tail(stream), next_col(l))

(* enclose: the text up to the closing `br`, a doubled `br` standing for   *)
(* one; the tag is Panic on a character that is not graphic                *)
RECURSIVE enclose_from(_, _, _, _)
enclose_from(br, result, stream, l) ==
    IF stream = << >> THEN Collected("Some", result, stream, l)
    ELSE LET c == Head(stream) IN
         IF ~is_graphic(c) THEN Collected("Panic", result, Tail(stream), next_col(l))
         ELSE IF br = c
         THEN IF Tail(stream) # << >> /\ Head(Tail(stream)) = br
              THEN enclose_from(br, result \o <<c>>, Tail(Tail(stream)), next_col(next_col(l)))
              ELSE Collected("Some", result, Tail(stream), next_col(l))
         ELSE enclose_from(br, result \o <<c>>, Tail(stream), next_col(l))

(* the text up to the first `br`, a doubled `br` not looked at *)
RECURSIVE enclose_to_first_from(_, _, _, _)
enclose_to_first_from(br, result, stream, l) ==
    IF stream = << >> THEN Collected("Some", result, stream, l)
    ELSE LET c == Head(stream) IN
         IF ~is_graphic(c) THEN Collected("Panic", result, Tail(stream), next_col(l))
         ELSE IF br = c THEN Collected("Some", result, Tail(stream), next_col(l))
         ELSE enclose_to_first_from(br, result \o <<c>>, Tail(stream), next_col(l))

enclose_to_first(br, stream, l) == enclose_to_first_from(br, << >>, stream, l)

enclose(br, stream, l) == enclose_from(br, << >>, stream, l)

(* collect_extended_identifier: panics on an empty identifier *)
collect_extended_identifier(stream, l) ==
    LET id == enclose(BACKSLASH, stream, l) IN
    IF id.tag = "Panic" \/ id.tk = << >> THEN Panicked(id.chars, id.loc)
    ELSE Some(VHDLToken("Identifier.Extended", id.tk), id.chars, id.loc)

(* the string literal of tokenize *)
collect_str_literal(c, stream, l) ==
    LET s == enclose(c, stream, l) IN
    IF s.tag = "Panic" THEN Panicked(s.chars, s.loc)
    ELSE Some(VHDLToken("StrLiteral", s.tk), s.chars, s.loc)

(* collect_chr_lit: one graphic character and the closing quote *)
collect_chr_lit(stream, l) ==
    IF stream = << >> THEN Some(VHDLToken("CharLiteral", << >>), stream, l)
    ELSE IF ~is_graphic(Head(stream)) THEN Panicked(Tail(stream), l)
    ELSE IF Tail(stream) = << >> \/ Head(Tail(stream)) # SINGLE_QUOTE
    THEN Panicked(Tail(stream), next_col(l))
    ELSE Some(VHDLToken("CharLiteral", <<Head(stream)>>), Tail(Tail(stream)),
              next_col(next_col(l)))

(* in_range: c is an extended digit of base b *)
in_range(b, c) ==
    LET within_digit == c < ASCII_ZERO + b /\ c >= ASCII_ZERO IN
    IF b <= 10 THEN within_digit
    ELSE within_digit \/ c \in 97..(97 + b - 11) \/ c \in 65..(65 + b - 11)

(* lit.replace('_', "").parse::<usize>(): the number of a text of digits   *)
(* and underlines, None for a text with another character                  *)
RECURSIVE parse_usize(_, _)
parse_usize(lit, n) ==
    IF lit = << >> THEN <<n>>
    ELSE IF Head(lit) = UNDERLINE THEN parse_usize(Tail(lit), n)
    ELSE IF is_digit(Head(lit)) THEN parse_usize(Tail(lit), 10 * n + (Head(lit) - ASCII_ZERO))
    ELSE << >>

(* collect_abst_lit: the token of the literal gathered *)
abst_lit(lit, base, stream, l) ==
    IF base # << >> THEN Some(VHDLToken("AbstLiteral.Based", lit), stream, l)
    ELSE Some(VHDLToken("AbstLiteral.Decimal", lit), stream, l)

(* collect_abst_lit: the digits of the exponent after its sign *)
RECURSIVE collect_exponent(_, _, _, _, _)
collect_exponent(lit, base, was_digit, stream, l) ==
    IF stream = << >> THEN abst_lit(lit, base, stream, l)
    ELSE LET c == Head(stream) IN
         IF is_digit(c)
         THEN collect_exponent(lit \o <<c>>, base, TRUE, Tail(stream), next_col(l))
         ELSE IF c = UNDERLINE
         THEN IF ~was_digit THEN Panicked(stream, l)
              ELSE collect_exponent(lit \o <<c>>, base, FALSE, Tail(stream), next_col(l))
         ELSE IF ~was_digit THEN Panicked(stream, l)
              ELSE abst_lit(lit, base, stream, l)

(* collect_abst_lit after the number: an exponent, the hand-over to        *)
(* collect_identifier at a letter (the digits read are dropped), or the    *)
(* literal as it stands                                                    *)
collect_abst_lit_tail(lit, base, stream, l) ==
    IF stream # << >> /\ Head(stream) \in {101, 69}
    THEN LET rest == Tail(stream)
             at == next_col(next_col(l)) IN
         IF rest = << >> THEN Panicked(rest, at)
         ELSE LET sign == Head(rest) IN
              IF sign # PLUS /\ sign # DASH /\ ~is_digit(sign) THEN Panicked(Tail(rest), at)
              ELSE collect_exponent(lit \o <<Head(stream), sign>>, base, is_digit(sign),
                                    Tail(rest), at)
    ELSE IF stream # << >> /\ is_ascii_alphabetic(Head(stream))
    THEN collect_identifier(Tail(stream), next_col(l), Head(stream))
    ELSE abst_lit(lit, base, stream, l)

(* collect_abst_lit: the loop gathering a base or a number *)
RECURSIVE collect_abst_lit_from(_, _, _, _, _, _, _)
collect_abst_lit_from(lit, base, dotted, was_digit, base_delim_char, stream, l) ==
    IF stream = << >> THEN collect_abst_lit_tail(lit, base, stream, l)
    ELSE LET c == Head(stream) IN
         IF is_digit(c) \/ c = UNDERLINE
               \/ (base # << >> /\ (is_ascii_alphabetic(c) \/ is_digit(c)))
         THEN IF base # << >> /\ c # UNDERLINE /\ ~in_range(base[1], c)
              THEN Panicked(stream, l)
              ELSE IF c = UNDERLINE /\ ~was_digit THEN Panicked(stream, l)
              ELSE collect_abst_lit_from(lit \o <<c>>, base, dotted, c # UNDERLINE,
                                         base_delim_char, Tail(stream), next_col(l))
         ELSE IF c = HASH \/ c = COLON
         THEN IF base_delim_char # << >> /\ c # base_delim_char[1] THEN Panicked(stream, l)
              ELSE IF ~was_digit THEN Panicked(stream, l)
              ELSE IF base # << >>
              THEN collect_abst_lit_tail(lit \o <<c>>, base, Tail(stream), next_col(l))
              ELSE LET b == parse_usize(lit, 0) IN
                   IF b = << >> THEN Panicked(stream, l)
                   ELSE IF b[1] < 2 \/ b[1] > 16 THEN Panicked(stream, l)
                   ELSE collect_abst_lit_from(lit \o <<c>>, b, dotted, FALSE, <<c>>,
                                              Tail(stream), next_col(l))
         ELSE IF c = DOT
         THEN IF dotted THEN Panicked(stream, l)
              ELSE IF ~was_digit THEN Panicked(stream, l)
              ELSE collect_abst_lit_from(lit \o <<c>>, base, TRUE, FALSE,
                                         base_delim_char, Tail(stream), next_col(l))
         ELSE collect_abst_lit_tail(lit, base, stream, l)

collect_abst_lit(stream, l, c0) ==
    collect_abst_lit_from(<<c0>>, << >>, FALSE, TRUE, << >>, stream, l)

(* ---- tokenize, one character of the dispatch at a time ---- *)
MaxChars == 5

(* the texts of at most n characters of an alphabet *)
Texts(alphabet, n) == UNION { [1..k -> alphabet] : k \in 0..n }

(* the characters of the sources read: delimiters ? < > / = \, literals    *)
(* 1 . _ b " ;, and the layout of a line a LF / * - '                      *)
DelimiterChars == {63, 60, 62, 47, 61, 92}

LiteralChars == {49, 46, 95, 98, 34, 59}

LayoutChars == {97, 10, 47, 42, 45, 39}

(* and the enclosed texts: " \ a LF *)
EnclosedChars == {34, 92, 97, 10}

SourceTexts ==
    Texts(DelimiterChars, MaxChars) \cup Texts(LiteralChars, MaxChars)
        \cup Texts(LayoutChars, MaxChars) \cup Texts(EnclosedChars, MaxChars)

(* the identifiers compared: texts of a A and their Latin-1 likes, basic   *)
(* or extended                                                             *)
MaxIdentifier == 2

IdentifierChars == {97, 65, 224, 192, 223}

Identifier(extended, text) == [extended |-> extended, text |-> text]

Identifiers ==
    { Identifier(x, t) : x \in BOOLEAN, t \in Texts(IdentifierChars, MaxIdentifier) \ {<< >>} }

InitTokenize ==
    /\ source \in SourceTexts
    /\ chars = source
    /\ loc = Position(1, 0)
    /\ tokens = << >>
    /\ returned = "no"
    /\ id0 = Identifier(FALSE, << >>)
    /\ id1 = Identifier(FALSE, << >>)
    /\ compared = << >>
    /\ plan = [top |-> None, bench |-> None, all |-> FALSE, only_lock |-> FALSE,
               clean |-> FALSE, filesets |-> << >>]
    /\ invocation = [force |-> FALSE, can_use_lock |-> FALSE,
                     plug |-> NoPlugin, current_files |-> << >>]
    /\ environment = {}
    /\ build_path = "missing"
    /\ NoCli
    /\ pc = "ip_graph"
    /\ nodes = << >>
    /\ edges = {}
    /\ top_a = None
    /\ bench_a = None
    /\ top = None
    /\ bench = None
    /\ err = NoError
    /\ lock_written = FALSE
    /\ min_order = << >>
    /\ blueprint = << >>
    /\ blueprint_written = FALSE
    /\ env = {}
    /\ ip_files = << >>
    /\ component_pairs = [n \in Names |-> NoLib]
    /\ sub_nodes = << >>
    /\ bodies = << >>

(* the branch tokenize takes at character c with `rest` after it *)
dispatch(c, rest) ==
    IF is_letter(c) THEN "identifier"
    ELSE IF c = BACKSLASH THEN "extended_identifier"
    ELSE IF c = DOUBLE_QUOTE THEN "str_literal"
    ELSE IF c = SINGLE_QUOTE THEN "chr_lit"
    ELSE IF is_digit(c) THEN "abst_lit"
    ELSE IF c = DASH /\ rest # << >> /\ Head(rest) = DASH THEN "comment"
    ELSE IF c = FWDSLASH /\ rest # << >> /\ Head(rest) = STAR THEN "delim_comment"
    ELSE "delimiter"

(* the variables of the other commands, which tokenize leaves alone *)
plan_vars ==
    <<build_vars, cli_vars, probe_vars, build_path, invocation, environment, plan, pc, nodes, edges, top_a, bench_a, top,
      bench, err, lock_written, min_order, blueprint, blueprint_written, env>>

(* tokenize's loop is at a character of the branch `branch` *)
reading(branch) ==
    /\ returned = "no"
    /\ chars # << >>
    /\ dispatch(Head(chars), Tail(chars)) = branch

(* the rest of a turn of the loop: the token the collector handed back is  *)
(* pushed with the position of the character taken, and a newline drops to *)
(* the next line                                                           *)
push(got) ==
    /\ returned' = IF got.tag = "Panic" THEN "panic" ELSE "no"
    /\ tokens' = IF got.tag = "Some" THEN Append(tokens, Token(got.tk, next_col(loc)))
                 ELSE tokens
    /\ chars' = got.chars
    /\ loc' = IF is_newline(Head(chars)) THEN next_line(got.loc) ELSE got.loc
    /\ UNCHANGED <<source, id0, id1, compared, plan_vars>>

CollectIdentifier ==
    /\ reading("identifier")
    /\ push(collect_identifier(Tail(chars), next_col(loc), Head(chars)))

CollectExtendedIdentifier ==
    /\ reading("extended_identifier")
    /\ push(collect_extended_identifier(Tail(chars), next_col(loc)))

CollectStrLiteral ==
    /\ reading("str_literal")
    /\ push(collect_str_literal(Head(chars), Tail(chars), next_col(loc)))

CollectChrLit ==
    /\ reading("chr_lit")
    /\ push(collect_chr_lit(Tail(chars), next_col(loc)))

CollectAbstLit ==
    /\ reading("abst_lit")
    /\ push(collect_abst_lit(Tail(chars), next_col(loc), Head(chars)))

CollectComment ==
    /\ reading("comment")
    /\ push(collect_comment(Tail(chars), next_col(loc)))

CollectDelimComment ==
    /\ reading("delim_comment")
    /\ push(collect_delim_comment(Tail(chars), next_col(loc)))

CollectDelimiter ==
    /\ reading("delimiter")
    /\ push(collect_delimiter(Tail(chars), next_col(loc), <<Head(chars)>>))

(* the end of the stream: the EOF token is pushed and tokenize returns *)
ReturnWithoutEOF ==
    /\ returned = "no"
    /\ chars = << >>
    /\ loc' = next_col(loc)
    /\ returned' = "yes"
    /\ UNCHANGED <<source, chars, tokens, id0, id1, compared, plan_vars>>

PushEOF ==
    /\ returned = "no"
    /\ chars = << >>
    /\ loc' = next_col(loc)
    /\ tokens' = Append(tokens, Token(VHDLToken("EOF", << >>), next_col(loc)))
    /\ returned' = "yes"
    /\ UNCHANGED <<source, chars, id0, id1, compared, plan_vars>>

NextTokenize ==
    \/ CollectIdentifier
    \/ CollectExtendedIdentifier
    \/ CollectStrLiteral
    \/ CollectChrLit
    \/ CollectAbstLit
    \/ CollectComment
    \/ CollectDelimComment
    \/ CollectDelimiter
    \/ PushEOF

SpecTokenize == InitTokenize /\ [][NextTokenize]_vars

(* ---- Identifier: PartialEq ---- *)
(* str::len: the bytes of the UTF-8 encoding of a text *)
RECURSIVE len(_)
len(s) == IF s = << >> THEN 0 ELSE len_utf8(Head(s)) + len(Tail(s))

(* cmp_ignore_case: the loop over the characters of s0, s1 read alongside; *)
(* <<b>> is the bool returned, << >> the panic of s1.next().unwrap()       *)
RECURSIVE cmp_ignore_case_from(_, _)
cmp_ignore_case_from(s0, s1) ==
    IF s0 = << >> THEN <<TRUE>>
    ELSE IF s1 = << >> THEN << >>
    ELSE IF to_lowercase(Head(s0)) # to_lowercase(Head(s1)) THEN <<FALSE>>
    ELSE cmp_ignore_case_from(Tail(s0), Tail(s1))

cmp_case_sensitive(s0, s1) == <<s0 = s1>>

cmp_ignore_case(s0, s1) ==
    IF len(s0) # len(s1) THEN <<FALSE>> ELSE cmp_ignore_case_from(s0, s1)

(* Identifier::eq *)
eq(self, other) ==
    IF self.extended # other.extended THEN <<FALSE>>
    ELSE IF self.extended = TRUE THEN <<self.text = other.text>>
    ELSE cmp_ignore_case(self.text, other.text)

(* Identifier::ne *)
ne(self, other) ==
    LET r == eq(self, other) IN
    IF r = << >> THEN << >> ELSE <<r[1] = FALSE>>

InitIdentifier ==
    /\ id0 \in Identifiers
    /\ id1 \in Identifiers
    /\ compared = << >>
    /\ source = << >>
    /\ chars = << >>
    /\ loc = Position(1, 0)
    /\ tokens = << >>
    /\ returned = "no"
    /\ plan = [top |-> None, bench |-> None, all |-> FALSE, only_lock |-> FALSE,
               clean |-> FALSE, filesets |-> << >>]
    /\ invocation = [force |-> FALSE, can_use_lock |-> FALSE,
                     plug |-> NoPlugin, current_files |-> << >>]
    /\ environment = {}
    /\ build_path = "missing"
    /\ NoCli
    /\ pc = "ip_graph"
    /\ nodes = << >>
    /\ edges = {}
    /\ top_a = None
    /\ bench_a = None
    /\ top = None
    /\ bench = None
    /\ err = NoError
    /\ lock_written = FALSE
    /\ min_order = << >>
    /\ blueprint = << >>
    /\ blueprint_written = FALSE
    /\ env = {}
    /\ ip_files = << >>
    /\ component_pairs = [n \in Names |-> NoLib]
    /\ sub_nodes = << >>
    /\ bodies = << >>

(* id0 == id1 *)
IdentifierEq ==
    /\ compared = << >>
    /\ compared' = <<"eq", eq(id0, id1)>>
    /\ UNCHANGED <<source, chars, loc, tokens, returned, id0, id1, plan_vars>>

(* id0 != id1 *)
IdentifierNe ==
    /\ compared = << >>
    /\ compared' = <<"ne", ne(id0, id1)>>
    /\ UNCHANGED <<source, chars, loc, tokens, returned, id0, id1, plan_vars>>

NextIdentifier ==
    \/ IdentifierEq
    \/ IdentifierNe

SpecIdentifier == InitIdentifier /\ [][NextIdentifier]_vars

(* ---- the command line: Cli ---- *)
(* An argument is the text given, a sequence of characters; tokenize looks *)
(* for the hyphen, 45, and the equals sign, 61.                            *)
(* a token of the command line; Flag and Terminator carry no text, Switch  *)
(* its character; `at` is the number of the argument it came from          *)
CliToken(kind, at, text) == [kind |-> kind, at |-> at, text |-> text]

(* a token taken out of the vector: None *)
Taken == CliToken("None", 0, << >>)

Cli(tks, store) == [tokens |-> tks, opt_store |-> store]

(* str::starts_with *)
starts_with(s, prefix) ==
    Len(s) >= Len(prefix) /\ SubSeq(s, 1, Len(prefix)) = prefix

(* str::split_once('='): the texts before and after the first =, or None *)
split_once(s) ==
    LET found == { k \in 1..Len(s) : s[k] = 61 } IN
    IF found = {} THEN << >>
    ELSE LET k == CHOOSE k \in found : \A j \in found : k <= j IN
         << <<SubSeq(s, 1, k - 1), SubSeq(s, k + 1, Len(s))>> >>

(* store.entry(key).or_insert(Vec::new()).push(at) *)
entry_push(store, key, at) ==
    [k \in DOMAIN store \cup {key} |->
        IF k = key
        THEN (IF key \in DOMAIN store THEN store[key] ELSE << >>) \o <<at>>
        ELSE store[k]]

(* the switches of a short option: one token for each character after the  *)
(* hyphen, each entered in the store at the place of its token             *)
RECURSIVE push_switches(_, _, _)
push_switches(c, i, letters) ==
    IF letters = << >> THEN c
    ELSE push_switches(
             Cli(Append(c.tokens, CliToken("Switch", i, <<Head(letters)>>)),
                 entry_push(c.opt_store, <<Head(letters)>>, Len(c.tokens))),
             i, Tail(letters))

(* what tokenize makes of an argument that starts with a hyphen *)
push_option(c, i, arg) ==
    LET split == split_once(arg)
        opt == IF split # << >> THEN split[1][1] ELSE arg
        named ==
            IF starts_with(opt, <<45, 45>>)
            THEN LET name == SubSeq(opt, 3, Len(opt)) IN
                 IF name = << >>
                 THEN [c |-> Cli(Append(c.tokens, CliToken("Terminator", i, << >>)),
                                 c.opt_store),
                       terminated |-> TRUE]
                 ELSE [c |-> Cli(Append(c.tokens, CliToken("Flag", i, << >>)),
                                 entry_push(c.opt_store, name, Len(c.tokens))),
                       terminated |-> FALSE]
            ELSE [c |-> push_switches(c, i, Tail(opt)), terminated |-> FALSE] IN
    IF split # << >>
    THEN [c |-> Cli(Append(named.c.tokens, CliToken("AttachedArgument", i, split[1][2])),
                    named.c.opt_store),
          terminated |-> named.terminated]
    ELSE named

(* Cli::tokenize: the loop over the arguments left, i the number of the    *)
(* next one                                                                *)
RECURSIVE tokenize_from(_, _, _, _)
tokenize_from(c, terminated, i, rest) ==
    IF rest = << >> THEN c
    ELSE LET arg == Head(rest) IN
         IF terminated
         THEN tokenize_from(Cli(Append(c.tokens, CliToken("Ignore", i, arg)), c.opt_store),
                            TRUE, i + 1, Tail(rest))
         ELSE IF starts_with(arg, <<45>>)
         THEN LET r == push_option(c, i, arg) IN
              tokenize_from(r.c, r.terminated, i + 1, Tail(rest))
         ELSE tokenize_from(
                  Cli(Append(c.tokens, CliToken("UnattachedArgument", i, arg)), c.opt_store),
                  FALSE, i + 1, Tail(rest))

(* args.skip(1) keeping the program name *)
skip_none(given) == given

skip(given) == IF given = << >> THEN << >> ELSE Tail(given)

tokenize(given) == tokenize_from(Cli(<< >>, << >>), FALSE, 0, skip(given))

(* str::parse::<usize> of a text of digits: None for any other text *)
RECURSIVE parse_digits(_, _)
parse_digits(s, n) ==
    IF s = << >> THEN <<n>>
    ELSE IF Head(s) \in 48..57 THEN parse_digits(Tail(s), 10 * n + (Head(s) - 48))
    ELSE << >>

parse(s) == IF s = << >> THEN << >> ELSE parse_digits(s, 0)

(* Option::take on the token at index p, counted from 0 *)
take(tks, p) == [tks EXCEPT ![p + 1] = Taken]

(* next_uarg taking the last unattached argument instead of the first *)
next_uarg_last(c) ==
    LET found == { p \in 1..Len(c.tokens) :
                      c.tokens[p].kind \in {"UnattachedArgument", "Terminator"} } IN
    IF found = {} THEN [c |-> c, value |-> << >>, at |-> << >>]
    ELSE LET p == CHOOSE p \in found : \A q \in found : p >= q IN
         IF c.tokens[p].kind = "Terminator" THEN [c |-> c, value |-> << >>, at |-> << >>]
         ELSE [c |-> Cli(take(c.tokens, p - 1), c.opt_store),
               value |-> <<c.tokens[p].text>>, at |-> <<c.tokens[p].at>>]

(* Cli::next_uarg: the first unattached argument, unless a terminator      *)
(* comes before it                                                         *)
next_uarg(c) ==
    LET found == { p \in 1..Len(c.tokens) :
                      c.tokens[p].kind \in {"UnattachedArgument", "Terminator"} } IN
    IF found = {} THEN [c |-> c, value |-> << >>, at |-> << >>]
    ELSE LET p == CHOOSE p \in found : \A q \in found : p <= q IN
         IF c.tokens[p].kind = "Terminator" THEN [c |-> c, value |-> << >>, at |-> << >>]
         ELSE [c |-> Cli(take(c.tokens, p - 1), c.opt_store),
               value |-> <<c.tokens[p].text>>, at |-> <<c.tokens[p].at>>]

(* take_flag_locs reading the store without removing the key *)
take_locs_kept(c, key) ==
    IF key \in DOMAIN c.opt_store
    THEN [c |-> c, locs |-> <<c.opt_store[key]>>]
    ELSE [c |-> c, locs |-> << >>]

(* Cli::take_flag_locs and Cli::take_switch_locs: opt_store.remove(key) *)
take_locs(c, key) ==
    IF key \in DOMAIN c.opt_store
    THEN [c |-> Cli(c.tokens, [k \in DOMAIN c.opt_store \ {key} |-> c.opt_store[k]]),
          locs |-> <<c.opt_store[key]>>]
    ELSE [c |-> c, locs |-> << >>]

(* Cli::combine_locations *)
combine_locations(lhs, rhs) ==
    IF lhs # << >> THEN (IF rhs # << >> THEN lhs[1] \o rhs[1] ELSE lhs[1])
    ELSE IF rhs # << >> THEN rhs[1]
    ELSE << >>

(* the locations of a flag in the store, by its name and by its switch,    *)
(* taken out of the store                                                  *)
take_all_locs(c, f) ==
    LET by_name == take_locs(c, f.name)
        by_switch == IF f.switch # << >> THEN take_locs(by_name.c, f.switch)
                     ELSE [c |-> by_name.c, locs |-> << >>] IN
    [c |-> by_switch.c, locs |-> combine_locations(by_name.locs, by_switch.locs)]

(* Cli::pull_flag: each flag at a location of m is taken out, and with it  *)
(* the token after it when that is an attached argument or, with_uarg, an  *)
(* unattached one; the values are Some(text) or None, one for a location   *)
RECURSIVE pull_flag_from(_, _, _, _)
pull_flag_from(tks, m, with_uarg, values) ==
    IF m = << >> THEN [tokens |-> tks, values |-> values]
    ELSE LET f == Head(m)
             gone == take(tks, f) IN
         IF f + 2 <= Len(gone)
                /\ \/ gone[f + 2].kind = "AttachedArgument"
                   \/ gone[f + 2].kind = "UnattachedArgument" /\ with_uarg
         THEN pull_flag_from(take(gone, f + 1), Tail(m), with_uarg,
                             Append(values, <<gone[f + 2].text>>))
         ELSE pull_flag_from(gone, Tail(m), with_uarg, Append(values, << >>))

pull_flag(c, m, with_uarg) ==
    LET r == pull_flag_from(c.tokens, m, with_uarg, << >>) IN
    [c |-> Cli(r.tokens, c.opt_store), values |-> r.values]

(* Cli::check_flag *)
check_flag(c, f) ==
    LET found == take_all_locs(c, f)
        pulled == pull_flag(found.c, found.locs, FALSE)
        occurences == pulled.values
        valued == { k \in 1..Len(occurences) : occurences[k] # << >> } IN
    IF valued # {}
    THEN [c |-> pulled.c,
          answer |-> [Answer("check_flag", f, "UnexpectedValue") EXCEPT
                         !.text = occurences[CHOOSE k \in valued :
                                                \A j \in valued : k <= j][1]]]
    ELSE IF Len(occurences) = 1
    THEN [c |-> pulled.c,
          answer |-> [Answer("check_flag", f, "Ok") EXCEPT !.bool = TRUE]]
    ELSE IF Len(occurences) = 0
    THEN [c |-> pulled.c, answer |-> Answer("check_flag", f, "Ok")]
    ELSE [c |-> pulled.c, answer |-> Answer("check_flag", f, "DuplicateOptions")]

(* Cli::check_option, the value parsed as a number *)
check_option(c, o) ==
    LET found == take_all_locs(c, o)
        pulled == pull_flag(found.c, found.locs, TRUE)
        values == pulled.values IN
    IF Len(values) = 1
    THEN IF values[1] # << >>
         THEN LET result == parse(values[1][1]) IN
              IF result # << >>
              THEN [c |-> pulled.c,
                    answer |-> [Answer("check_option", o, "Ok") EXCEPT
                                   !.some = TRUE, !.number = result[1]]]
              ELSE [c |-> pulled.c, answer |-> Answer("check_option", o, "BadType")]
         ELSE [c |-> pulled.c, answer |-> Answer("check_option", o, "ExpectingValue")]
    ELSE IF Len(values) = 0
    THEN [c |-> pulled.c, answer |-> Answer("check_option", o, "Ok")]
    ELSE [c |-> pulled.c, answer |-> Answer("check_option", o, "DuplicateOptions")]

(* Cli::check_positional, the value parsed as a number *)
check_positional(c) ==
    LET next == next_uarg(c)
        who == Flag(<< >>, << >>) IN
    IF next.value = << >>
    THEN [c |-> next.c, at |-> << >>, answer |-> Answer("check_positional", who, "Ok")]
    ELSE LET result == parse(next.value[1]) IN
         IF result # << >>
         THEN [c |-> next.c, at |-> next.at,
               answer |-> [Answer("check_positional", who, "Ok") EXCEPT
                              !.some = TRUE, !.number = result[1]]]
         ELSE [c |-> next.c, at |-> next.at,
               answer |-> Answer("check_positional", who, "BadType")]

(* Cli::get_remainder: the Ignore tokens after the terminator, taken out *)
get_remainder(c) ==
    LET ends == { p \in 1..Len(c.tokens) : c.tokens[p].kind = "Terminator" }
        from == IF ends = {} THEN Len(c.tokens) + 1
                ELSE CHOOSE p \in ends : \A q \in ends : p <= q
        ignored(p) == p >= from /\ c.tokens[p].kind = "Ignore" IN
    [c |-> Cli([p \in 1..Len(c.tokens) |-> IF ignored(p) THEN Taken ELSE c.tokens[p]],
               c.opt_store),
     texts |-> LET kept == SelectSeq([p \in 1..Len(c.tokens) |->
                                        IF ignored(p) THEN <<c.tokens[p].text>> ELSE << >>],
                                    LAMBDA v : v # << >>) IN
               [k \in 1..Len(kept) |-> kept[k][1]]]

(* the command lines read: the program name and at most MaxArgs arguments  *)
(* out of --, -v, --vb=1, --v, x and 1                                     *)
MaxArgs == 3

Arguments ==
    { <<45, 45>>, <<45, 118>>, <<45, 45, 118, 98, 61, 49>>,
      <<45, 45, 118>>, <<120>>, <<49>> }

ProgramNames == { <<111>> }

CommandLines ==
    { <<name>> \o given : name \in ProgramNames,
                          given \in UNION { [1..n -> Arguments] : n \in 0..MaxArgs } }

(* the flags and options asked for: vb with the switch v, and v without a  *)
(* switch                                                                  *)
Flags == { Flag(<<118, 98>>, <<118>>), Flag(<<118>>, << >>) }

NoRun ==
    /\ plan = [top |-> None, bench |-> None, all |-> FALSE, only_lock |-> FALSE,
               clean |-> FALSE, filesets |-> << >>]
    /\ invocation = [force |-> FALSE, can_use_lock |-> FALSE,
                     plug |-> NoPlugin, current_files |-> << >>]
    /\ environment = {}
    /\ build_path = "missing"
    /\ pc = "ip_graph"
    /\ nodes = << >>
    /\ edges = {}
    /\ top_a = None
    /\ bench_a = None
    /\ top = None
    /\ bench = None
    /\ err = NoError
    /\ lock_written = FALSE
    /\ min_order = << >>
    /\ blueprint = << >>
    /\ blueprint_written = FALSE
    /\ env = {}
    /\ ip_files = << >>
    /\ component_pairs = [n \in Names |-> NoLib]
    /\ sub_nodes = << >>
    /\ bodies = << >>

InitCli ==
    /\ args \in CommandLines
    /\ cli = Cli(<< >>, << >>)
    /\ answer = NoAnswer
    /\ served = << >>
    /\ asked = {}
    /\ table = << >>
    /\ rows = << >>
    /\ NoSource
    /\ NoRun

(* the variables the calls on the Cli leave alone *)
cli_unchanged ==
    <<args, probe_vars, vhdl_vars, build_vars, build_path, invocation, environment, plan,
      pc, nodes, edges, top_a, bench_a, top, bench, err, lock_written, min_order,
      blueprint, blueprint_written, env>>

Tokenize ==
    /\ answer = NoAnswer
    /\ cli' = tokenize(args)
    /\ answer' = Answer("tokenize", Flag(<< >>, << >>), "Ok")
    /\ UNCHANGED <<served, asked, cli_unchanged>>

CheckFlag ==
    /\ answer # NoAnswer
    /\ \E f \in Flags :
         LET r == check_flag(cli, f) IN
         /\ cli' = r.c
         /\ answer' = r.answer
         /\ asked' = asked \cup {f}
    /\ UNCHANGED <<served, cli_unchanged>>

CheckOption ==
    /\ answer # NoAnswer
    /\ \E o \in Flags :
         LET r == check_option(cli, o) IN
         /\ cli' = r.c
         /\ answer' = r.answer
         /\ asked' = asked \cup {o}
    /\ UNCHANGED <<served, cli_unchanged>>

NextUarg ==
    /\ answer # NoAnswer
    /\ LET r == next_uarg(cli) IN
         /\ cli' = r.c
         /\ answer' = IF r.value = << >>
                      THEN Answer("next_uarg", Flag(<< >>, << >>), "Ok")
                      ELSE [Answer("next_uarg", Flag(<< >>, << >>), "Ok") EXCEPT
                               !.some = TRUE, !.text = r.value[1]]
         /\ served' = served \o r.at
    /\ UNCHANGED <<asked, cli_unchanged>>

CheckPositional ==
    /\ answer # NoAnswer
    /\ LET r == check_positional(cli) IN
         /\ cli' = r.c
         /\ answer' = r.answer
         /\ served' = served \o r.at
    /\ UNCHANGED <<asked, cli_unchanged>>

GetRemainder ==
    /\ answer # NoAnswer
    /\ LET r == get_remainder(cli) IN
         /\ cli' = r.c
         /\ answer' = [Answer("get_remainder", Flag(<< >>, << >>), "Ok") EXCEPT
                          !.texts = r.texts]
    /\ UNCHANGED <<served, asked, cli_unchanged>>

NextCli ==
    \/ Tokenize
    \/ CheckFlag
    \/ CheckOption
    \/ NextUarg
    \/ CheckPositional
    \/ GetRemainder

SpecCli == InitCli /\ [][NextCli]_vars

(* ---- the version table of probe (commands/probe.rs) ---- *)
(* A Version is modelled by its rank in the order of Version, which is the *)
(* order of the keys of the BTreeMap; the table is a record of the dev     *)
(* version (an Option) and the installed and available lists.              *)
MaxVersion == 3

MaxListed == 3

Versions == 1..MaxVersion

(* the lists of versions, no version twice in a list: the manifests of one *)
(* IP found at one level, one for a version                                *)
VersionLists ==
    { list \in UNION { [1..n -> Versions] : n \in 0..MaxListed } :
        \A j, k \in 1..Len(list) : j # k => list[j] # list[k] }

VersionTables ==
    [dev : {<< >>} \cup { <<v>> : v \in Versions },
     installed : VersionLists,
     available : VersionLists]

(* BTreeMap::insert *)
insert(btmap, v, status) ==
    [k \in DOMAIN btmap \cup {v} |-> IF k = v THEN status ELSE btmap[k]]

(* the loop over the installed versions: entry.1 = true, or a new entry *)
RECURSIVE log_installed(_, _)
log_installed(btmap, list) ==
    IF list = << >> THEN btmap
    ELSE LET v == Head(list) IN
         log_installed(IF v \in DOMAIN btmap
                       THEN [btmap EXCEPT ![v][2] = TRUE]
                       ELSE insert(btmap, v, <<FALSE, TRUE, FALSE>>),
                       Tail(list))

(* the loop over the available versions: entry.1 = true for a version      *)
(* already in the map, or a new entry                                      *)
RECURSIVE log_available(_, _)
log_available(btmap, list) ==
    IF list = << >> THEN btmap
    ELSE LET v == Head(list) IN
         log_available(IF v \in DOMAIN btmap
                       THEN [btmap EXCEPT ![v][2] = TRUE]
                       ELSE insert(btmap, v, <<FALSE, FALSE, TRUE>>),
                       Tail(list))

(* btmap.iter().rev(): the entries from the greatest key down *)
RECURSIVE iter_rev(_)
iter_rev(btmap) ==
    IF DOMAIN btmap = {} THEN << >>
    ELSE LET v == CHOOSE v \in DOMAIN btmap : \A w \in DOMAIN btmap : w <= v IN
         <<[ver |-> v, status |-> btmap[v]]>>
             \o iter_rev([k \in DOMAIN btmap \ {v} |-> btmap[k]])

(* a row of the body: the version and the three marks *)
format_row(ver, status) ==
    [ver |-> ver,
     D |-> IF status[1] THEN "D" ELSE "",
     I |-> IF status[2] THEN "I" ELSE "",
     A |-> IF status[3] THEN "A" ELSE ""]

(* format_version_table: the header and the rows of the body *)
format_version_table(t) ==
    LET of_dev == IF t.dev # << >>
                  THEN insert(<< >>, t.dev[1], <<TRUE, FALSE, FALSE>>)
                  ELSE << >>
        btmap == log_available(log_installed(of_dev, t.installed), t.available)
        entries == iter_rev(btmap) IN
    [header |-> <<"Version", "Status">>,
     body |-> [k \in 1..Len(entries) |-> format_row(entries[k].ver, entries[k].status)]]

InitProbe ==
    /\ table \in VersionTables
    /\ rows = << >>
    /\ args = << >>
    /\ cli = Cli(<< >>, << >>)
    /\ answer = NoAnswer
    /\ served = << >>
    /\ asked = {}
    /\ NoSource
    /\ NoRun

(* probe --tags: the table of the versions found is formatted *)
FormatVersionTable ==
    /\ rows = << >>
    /\ rows' = <<format_version_table(table)>>
    /\ UNCHANGED <<table, cli_vars, vhdl_vars, build_vars, build_path, invocation,
                   environment, plan, pc, nodes, edges, top_a, bench_a, top, bench,
                   err, lock_written, min_order, blueprint, blueprint_written, env>>

NextProbe == FormatVersionTable

SpecProbe == InitProbe /\ [][NextProbe]_vars

(* ======================================================================= *)
(* The claims                                                              *)
(* ======================================================================= *)
(* positions of run *)
AfterDetectTop ==
    {"cross_check", "err_cross_check", "panic_cross_check", "write_lockfile",
     "sort", "panic_sort", "blueprint", "env", "done"}

Aborted ==
    {"err_detect_bench", "err_detect_top", "err_cross_check",
     "panic_detect_top", "panic_cross_check", "panic_sort"}

(* the graph was built and detect_bench has run *)
StepADone == plan.only_lock = FALSE /\ pc \notin {"ip_graph", "detect_bench"}

(* detect_bench and detect_top have both run *)
StepBDone == plan.only_lock = FALSE /\ pc \in AfterDetectTop \cup {"err_detect_top", "panic_detect_top"}

NoUnitGiven == plan.top = None /\ plan.bench = None

WorkNodes == { i \in 1..Len(nodes) : nodes[i].lib = "work" }

(* the roots of the working-library subgraph *)
WorkRoots == { i \in WorkNodes : \A j \in WorkNodes : <<i, j>> \notin edges }

PortEntity(i) == nodes[i].sym = "Entity" /\ nodes[i].is_testbench = FALSE

TestbenchEntity(i) == nodes[i].sym = "Entity" /\ nodes[i].is_testbench = TRUE

NothingWritten == lock_written = FALSE /\ blueprint_written = FALSE /\ env = {}

(* position of a file in the blueprint, 0 when it is not listed *)
LineOf(f) ==
    IF \E k \in 1..Len(blueprint) : blueprint[k] = hdl_line(f)
    THEN CHOOSE k \in 1..Len(blueprint) : blueprint[k] = hdl_line(f)
    ELSE 0

(* the graph of scenario S2: the port-bearing entity fa, the port-less    *)
(* entity fa_tb, both of the working library, and the one edge fa -> fa_tb *)
S2Graph(fa, fa_tb) ==
    /\ Len(nodes) = 2
    /\ WorkNodes = {fa, fa_tb}
    /\ fa # fa_tb
    /\ PortEntity(fa)
    /\ TestbenchEntity(fa_tb)
    /\ edges = {<<fa, fa_tb>>}

(* C1: without --top, --bench and --all, on the graph of fa and its       *)
(* testbench fa_tb (edge fa -> fa_tb) detect_bench finds bench = fa_tb     *)
(* with no natural top, detect_top finds top = fa, the plan does not       *)
(* abort, and the blueprint lists fa's file before fa_tb's file.           *)
C1_UnitAndTestbench ==
    \A fa, fa_tb \in 1..Len(nodes) :
        (StepADone /\ NoUnitGiven /\ plan.all = FALSE /\ S2Graph(fa, fa_tb)) =>
            /\ pc \notin Aborted
            /\ top_a = None /\ bench_a = fa_tb
            /\ (pc \in AfterDetectTop => top = fa /\ bench = fa_tb)
            /\ (blueprint_written =>
                    /\ LineOf(nodes[fa].files[1]) > 0
                    /\ LineOf(nodes[fa].files[1]) < LineOf(nodes[fa_tb].files[1]))
            /\ (pc = "done" => blueprint_written)

C1_Witness ==
    /\ pc = "done"
    /\ NoUnitGiven /\ plan.all = FALSE /\ plan.only_lock = FALSE
    /\ \E fa, fa_tb \in 1..Len(nodes) : S2Graph(fa, fa_tb) /\ top = fa /\ bench = fa_tb
    /\ Len(blueprint) = 2

(* C2: without --top and --bench, when the working-library subgraph has   *)
(* exactly one root and it is an entity with ports, detect_bench returns   *)
(* it as the natural top with no bench and detect_top adopts it; which     *)
(* node that is depends on the nodes and edges of the working library only.*)
C2_NaturalTop ==
    \A r \in 1..Len(nodes) :
        (StepADone /\ NoUnitGiven /\ WorkRoots = {r} /\ PortEntity(r)) =>
            /\ pc \notin {"err_detect_bench", "err_detect_top", "panic_detect_top"}
            /\ top_a = r /\ bench_a = None
            /\ (pc \in AfterDetectTop => top = r /\ bench = None)

(* the single root of the working library is used by a unit of another library *)
C2_Witness ==
    /\ pc = "done" /\ NoUnitGiven /\ plan.only_lock = FALSE
    /\ \E r \in 1..Len(nodes) :
         /\ WorkRoots = {r} /\ PortEntity(r) /\ top = r /\ bench = None
         /\ \E f \in 1..Len(nodes) : nodes[f].lib # "work" /\ <<r, f>> \in edges

(* C3: without --top, --bench and --all, two or more roots of the working *)
(* library end the plan in detect_bench with Ambiguous("roots", the roots) *)
(* and neither the lock file, the blueprint nor .env is written.           *)
C3_AmbiguousRoots ==
    (StepADone /\ NoUnitGiven /\ plan.all = FALSE /\ Cardinality(WorkRoots) >= 2) =>
        /\ pc = "err_detect_bench"
        /\ err = [kind |-> "Ambiguous", what |-> "roots",
                  ids |-> { nodes[i].name : i \in WorkRoots }]
        /\ NothingWritten

(* scenario S3: two independent entities with ports *)
C3_Witness ==
    /\ pc = "err_detect_bench" /\ NoUnitGiven /\ plan.all = FALSE
    /\ Len(nodes) = 2 /\ edges = {} /\ WorkNodes = {1, 2}
    /\ PortEntity(1) /\ PortEntity(2)
    /\ err.kind = "Ambiguous" /\ err.ids = {1, 2}

(* the order lists every node of the graph once, each after its dependencies *)
IsTopologicalOrderOfGraph(order) ==
    /\ Len(order) = Len(nodes)
    /\ { order[k] : k \in 1..Len(order) } = 1..Len(nodes)
    /\ \A k, l \in 1..Len(order) : <<order[k], order[l]>> \in edges => k < l

(* the result of detect_bench, of detect_top, before run looks at them *)
StepA == detect_bench(plan, nodes, edges)

StepB == detect_top(plan, nodes, edges, top_a, bench_a)

IsAmbiguity(r) == r.tag = "Err" /\ r.err.kind = "Ambiguous"

HardErrors == {"UnknownEntity", "BadEntity", "BadTop", "BadTestbench", "TestbenchNoTest"}

(* C5: with or without --all, an error UnknownEntity, BadEntity, BadTop,  *)
(* BadTestbench or TestbenchNoTest of detect_bench or detect_top ends the  *)
(* plan with that error, and a plan ended by a selection error has written *)
(* neither the lock file, the blueprint nor .env.                          *)
C5_OnlyAmbiguityTolerated ==
    /\ (StepADone /\ StepA.tag = "Err" /\ StepA.err.kind \in HardErrors) =>
          pc = "err_detect_bench" /\ err = StepA.err
    /\ (StepBDone /\ StepB.tag = "Err" /\ StepB.err.kind \in HardErrors) =>
          pc = "err_detect_top" /\ err = StepB.err
    /\ pc \in {"err_detect_bench", "err_detect_top"} => NothingWritten

C5_Witness ==
    /\ pc = "err_detect_top" /\ plan.all = TRUE
    /\ err.kind = "TestbenchNoTest"
    /\ NothingWritten

(* the nodes --bench / --top resolve to: key (work, name) *)
WorkNodesNamed(t) == { i \in WorkNodes : nodes[i].name = t }

(* C6: with --bench t detect_bench gives UnknownEntity(t) when (work, t)  *)
(* is no node, BadEntity(t) when it is not an entity, BadTestbench(t) when *)
(* it is an entity with ports, and otherwise that node as bench with no    *)
(* natural top; the roots are not searched, so Ambiguous("roots") never    *)
(* arises.                                                                 *)
C6_UserBench ==
    (StepADone /\ plan.bench # None) =>
        LET t == plan.bench
            found == WorkNodesNamed(t) IN
        /\ ~(err.kind = "Ambiguous" /\ err.what = "roots")
        /\ found = {} => pc = "err_detect_bench" /\ err = PlanError("UnknownEntity", t)
        /\ \A n \in found :
             /\ nodes[n].sym # "Entity" =>
                    pc = "err_detect_bench" /\ err = PlanError("BadEntity", t)
             /\ PortEntity(n) =>
                    pc = "err_detect_bench" /\ err = PlanError("BadTestbench", t)
             /\ TestbenchEntity(n) =>
                    pc # "err_detect_bench" /\ bench_a = n /\ top_a = None

(* --bench names a testbench while the working library has several roots *)
C6_Witness ==
    /\ pc = "detect_top" /\ plan.bench # None /\ plan.all = FALSE
    /\ bench_a \in WorkNodesNamed(plan.bench) /\ top_a = None
    /\ Cardinality(WorkRoots) >= 2

(* the testbenches among the successors of n *)
BenchesOf(n) == { s \in 1..Len(nodes) : <<n, s>> \in edges /\ TestbenchEntity(s) }

C8_BenchFromTop ==
    (StepBDone /\ plan.top # None /\ bench_a = None) =>
        \A n \in WorkNodesNamed(plan.top) :
            PortEntity(n) =>
                /\ pc # "panic_detect_top"
                /\ BenchesOf(n) = {} => pc \in AfterDetectTop /\ top = n /\ bench = None
                /\ \A b \in BenchesOf(n) :
                      BenchesOf(n) = {b} => pc \in AfterDetectTop /\ top = n /\ bench = b
                /\ Cardinality(BenchesOf(n)) > 1 =>
                      IF plan.all
                      THEN pc \in AfterDetectTop
                      ELSE /\ pc = "err_detect_top"
                           /\ err = [kind |-> "Ambiguous", what |-> "testbenches",
                                     ids |-> { nodes[b].name : b \in BenchesOf(n) }]

(* the entities among the predecessors of b *)
EntitiesUsedBy(b) == { p \in 1..Len(nodes) : <<p, b>> \in edges /\ nodes[p].sym = "Entity" }

(* C9: without --top, a natural top is adopted as it is and bench stays   *)
(* as detect_bench left it.  Without a natural top and with a bench,       *)
(* detect_top counts the predecessors of bench that are entities: none     *)
(* gives TestbenchNoTest(bench), one becomes top, several give             *)
(* Ambiguous("entities instantiated in the testbench"); predecessors that  *)
(* are no entities are not counted.                                        *)
C9_TopFromBench ==
    (StepBDone /\ plan.top = None) =>
        /\ top_a # None => pc \in AfterDetectTop /\ top = top_a /\ bench = bench_a
        /\ (top_a = None /\ bench_a # None) =>
             LET used == EntitiesUsedBy(bench_a) IN
             /\ used = {} =>
                   /\ pc = "err_detect_top"
                   /\ err = PlanError("TestbenchNoTest", nodes[bench_a].name)
             /\ \A e \in used :
                   used = {e} => pc \in AfterDetectTop /\ top = e /\ bench = bench_a
             /\ Cardinality(used) > 1 =>
                   IF plan.all
                   THEN pc \in AfterDetectTop /\ top = None /\ bench = bench_a
                   ELSE /\ pc = "err_detect_top"
                        /\ err = [kind |-> "Ambiguous",
                                  what |-> "entities instantiated in the testbench",
                                  ids |-> { nodes[e].name : e \in used }]

(* the bench uses one entity and one package: the entity becomes top *)
C9_Witness ==
    /\ pc = "done" /\ plan.top = None /\ top_a = None /\ bench_a # None
    /\ bench = bench_a /\ EntitiesUsedBy(bench_a) = {top}
    /\ \E p \in 1..Len(nodes) : <<p, bench_a>> \in edges /\ nodes[p].sym # "Entity"

Written == lock_written \/ blueprint_written \/ env # {}

(* C10: a plan without --all that has top and bench set gets past the     *)
(* cross-check only if bench is a successor of top; otherwise it ends in   *)
(* the cross-check's error with neither lock file, blueprint nor .env      *)
(* written.                                                                *)
C10_TopTestedInBench ==
    (plan.all = FALSE /\ plan.only_lock = FALSE) =>
        /\ (pc \in {"write_lockfile", "sort", "blueprint", "env", "done"}
                /\ top # None /\ bench # None) => <<top, bench>> \in edges
        /\ (pc \in AfterDetectTop \ {"cross_check"} /\ top # None /\ bench # None
                /\ <<top, bench>> \notin edges) =>
              pc = "err_cross_check" /\ err.kind = "TopNotInBench" /\ NothingWritten
        /\ (Written /\ top # None /\ bench # None) => <<top, bench>> \in edges

(* --top and --bench name valid units, but the bench does not use the top *)
C10_WitnessRejected ==
    /\ pc = "err_cross_check" /\ plan.all = FALSE
    /\ top # None /\ bench # None /\ <<top, bench>> \notin edges
    /\ NothingWritten

(* a plan that passed the cross-check with both units set *)
C10_WitnessPassed ==
    /\ pc = "done" /\ plan.all = FALSE /\ plan.only_lock = FALSE
    /\ top # None /\ bench # None /\ <<top, bench>> \in edges /\ blueprint_written

(* the bench depends on the top: a path of edges leads from top to bench *)
TransitivelyInstantiated(t, b) == t # b /\ t \in ancestors(edges, {b})

(* --top and --bench both name the unit the selection settled on *)
UserTopAndBench ==
    /\ plan.top # None /\ plan.bench # None
    /\ top \in WorkNodesNamed(plan.top) /\ bench \in WorkNodesNamed(plan.bench)

(* C11: without --all and with valid --top and --bench, the plan fails    *)
(* with TopNotInBench exactly when the top is not transitively            *)
(* instantiated by the bench; a top the bench reaches through an           *)
(* intermediate entity passes.                                             *)
C11_TopNotInBenchIsTransitive ==
    (plan.all = FALSE /\ plan.only_lock = FALSE /\ UserTopAndBench
        /\ pc \in AfterDetectTop \ {"cross_check"}) =>
        (pc = "err_cross_check" <=> ~TransitivelyInstantiated(top, bench))

(* C12: a plan that succeeds with --top t has selected the node (work, t) *)
(* and saved its name as ORBIT_TOP, with or without --all, also when t is  *)
(* used by several testbenches.                                            *)
C12_UserTopIsSelected ==
    (pc = "done" /\ plan.only_lock = FALSE /\ plan.top # None) =>
        /\ top \in WorkNodesNamed(plan.top)
        /\ <<"ORBIT_TOP", plan.top>> \in env

(* ======================================================================= *)
(* the graph builder                                                       *)
(* ======================================================================= *)

(* pass 4 has run: the HDL graph is complete *)
GraphBuilt == pc \in {"select", "sort", "panic_sort", "blueprint", "env"}

KeyOf(i) == CompoundIdentifier(nodes[i].lib, nodes[i].name)

IsNode(d) == get_node_by_key(nodes, d.prefix, d.suffix) # None

(* the sub-units held aside whose owner is node b *)
SubUnitsOf(b) ==
    { k \in 1..Len(sub_nodes) :
        sub_nodes[k].lib = nodes[b].lib /\ sub_nodes[k].sub.name = nodes[b].name }

(* some dependency recorded for node b names node a: a reference of b's   *)
(* symbol, or a dependency of an architecture of b                         *)
Justified(a, b) ==
    \/ KeyOf(a) \in nodes[b].refs
    \/ \E k \in SubUnitsOf(b) :
          \/ KeyOf(a) \in sub_nodes[k].sub.refs
          \/ KeyOf(a) \in sub_nodes[k].sub.edges
          \/ /\ CompoundIdentifier(NoLib, nodes[a].name) \in sub_nodes[k].sub.edges
             /\ component_pairs[nodes[a].name] = nodes[a].lib

(* C13: after the four passes every edge has both endpoints among the     *)
(* nodes and comes from a recorded dependency on an existing unit; a       *)
(* dependency that cannot be resolved adds no edge and raises no error.    *)
C13_EdgesBetweenNodes ==
    /\ edges \subseteq Indices(nodes) \X Indices(nodes)
    /\ GraphBuilt =>
         /\ err = NoError
         /\ \A e \in edges : Justified(e[1], e[2])

(* an architecture of an existing entity with a prefixed dependency, a    *)
(* component and a use clause that all name units not in the graph         *)
C13_Witness ==
    /\ pc = "select"
    /\ \E b \in Indices(nodes) :
          /\ \E k \in SubUnitsOf(b) : \E d \in sub_nodes[k].sub.edges :
                d.prefix # NoLib /\ ~IsNode(d)
          /\ \E k \in SubUnitsOf(b) : \E d \in sub_nodes[k].sub.edges :
                d.prefix = NoLib /\ component_pairs[d.suffix] = NoLib
          /\ \E k \in SubUnitsOf(b) : \E d \in sub_nodes[k].sub.refs : ~IsNode(d)

(* the list with every later occurrence of a (file, library) pair removed *)
RECURSIVE Once(_)
Once(fs) ==
    IF fs = << >> THEN << >>
    ELSE LET front == SubSeq(fs, 1, Len(fs) - 1) IN
         IF \E j \in 1..Len(front) : front[j] = fs[Len(fs)]
         THEN Once(front) ELSE Append(Once(front), fs[Len(fs)])

(* the list with every immediate repetition of a pair removed *)
RECURSIVE Squeeze(_)
Squeeze(fs) ==
    IF Len(fs) < 2 THEN fs
    ELSE LET front == SubSeq(fs, 1, Len(fs) - 1) IN
         IF fs[Len(fs) - 1] = fs[Len(fs)]
         THEN Squeeze(front) ELSE Append(Squeeze(front), fs[Len(fs)])

(* what the claims compare of a graph: the node keys, the file list of    *)
(* each key and the edges between keys                                     *)
GraphView(g) ==
    [keys  |-> { CompoundIdentifier(g.nodes[i].lib, g.nodes[i].name) : i \in Indices(g.nodes) },
     files |-> { <<CompoundIdentifier(g.nodes[i].lib, g.nodes[i].name), g.nodes[i].files>> :
                    i \in Indices(g.nodes) },
     edges |-> { <<CompoundIdentifier(g.nodes[e[1]].lib, g.nodes[e[1]].name),
                   CompoundIdentifier(g.nodes[e[2]].lib, g.nodes[e[2]].name)>> : e \in g.edges }]

NoFileTwice ==
    \A i \in Indices(nodes) : \A p, q \in 1..Len(nodes[i].files) :
        nodes[i].files[p] = nodes[i].files[q] => p = q

Repeats(fs) == \E j, k \in 1..Len(fs) : j < k /\ fs[j] = fs[k]

(* C14 as stated: a file list in which a (file, library) pair occurs      *)
(* twice gives the graph of the list with that pair once: the same node    *)
(* keys, the same file list per node, without duplicates, and the same     *)
(* edges.                                                                  *)
C14_DuplicateFileOnce ==
    pc = "select" =>
        /\ GraphView(graph_map) = GraphView(build_full_graph(Once(ip_files)))
        /\ NoFileTwice

(* C14, amended: a file list in which a (file, library) pair is repeated  *)
(* immediately gives the graph of the list with that pair once: the same   *)
(* node keys, the same file list per node, without duplicates, and the     *)
(* same edges; adding an edge the graph has leaves the edges as they are.  *)
C14_RepeatedFileOnce ==
    pc = "select" =>
        /\ GraphView(graph_map) = GraphView(build_full_graph(Squeeze(ip_files)))
        /\ NoFileTwice
        /\ \A e \in edges : add_edge_by_key(nodes, edges, KeyOf(e[1]), KeyOf(e[2])) = edges

(* a file that holds an architecture of an existing entity, listed twice  *)
(* in a row: the owner has the file once and the edge of its dependency    *)
(* once                                                                    *)
C14_Witness ==
    /\ pc = "select"
    /\ \E k \in 1..(Len(ip_files) - 1) :
          /\ ip_files[k] = ip_files[k + 1]
          /\ \E b \in Indices(nodes) : \E s \in SubUnitsOf(b) :
                /\ sub_nodes[s].file = ip_files[k]
                /\ nodes[b].files[1] # ip_files[k]
                /\ nodes[b].refs = {}
                /\ \E a \in Indices(nodes) : <<a, b>> \in edges

(* file k of the list defines the primary unit that node i stands for *)
DefinesKey(k, i) ==
    /\ ip_files[k].library = nodes[i].lib
    /\ \E j \in DOMAIN Sources[ip_files[k].file] :
          LET u == Sources[ip_files[k].file][j] IN
          u.kind \in {"Entity", "Package"} /\ u.name = nodes[i].name

(* file k of the list holds an architecture or configuration whose owner, *)
(* looked up in the file's own library, is node i                          *)
HoldsSubUnitOf(k, i) ==
    /\ ip_files[k].library = nodes[i].lib
    /\ \E j \in DOMAIN Sources[ip_files[k].file] :
          LET u == Sources[ip_files[k].file][j] IN
          u.kind = "Architecture" /\ u.name = nodes[i].name

(* where in the list a sub-unit of node i was first found in file f *)
Discovered(f, i) ==
    CHOOSE k \in 1..Len(ip_files) :
        /\ ip_files[k] = f /\ HoldsSubUnitOf(k, i)
        /\ \A j \in 1..(k - 1) : ~(ip_files[j] = f /\ HoldsSubUnitOf(j, i))

(* C15: the file list of a node starts with the file that defines the     *)
(* unit; the file of every architecture or configuration found for the     *)
(* owner (library of the sub-unit, owner name) is in the list exactly      *)
(* once, after the defining file and in the order the sub-units were       *)
(* found; the file of a sub-unit of another library is not in it.          *)
C15_OwnerFileList ==
    GraphBuilt =>
        \A i \in Indices(nodes) :
            LET fl == nodes[i].files IN
            /\ \E k \in 1..Len(ip_files) :
                  /\ DefinesKey(k, i) /\ fl[1] = ip_files[k]
                  /\ \A j \in (k + 1)..Len(ip_files) : ~DefinesKey(j, i)
            /\ { fl[p] : p \in 1..Len(fl) } =
                  {fl[1]} \cup { ip_files[k] : k \in { j \in 1..Len(ip_files) : HoldsSubUnitOf(j, i) } }
            /\ \A p, q \in 1..Len(fl) : fl[p] = fl[q] => p = q
            /\ \A p, q \in 2..Len(fl) :
                  p < q => Discovered(fl[p], i) < Discovered(fl[q], i)

(* two libraries hold an entity of the same name; only the one in the     *)
(* library of the architecture's file has that file, after its own         *)
C15_Witness ==
    /\ pc = "select"
    /\ \E i, j \in Indices(nodes) :
          /\ nodes[i].name = nodes[j].name /\ nodes[i].lib # nodes[j].lib
          /\ Len(nodes[i].files) = 2 /\ Len(nodes[j].files) = 1
          /\ \E k \in 1..Len(ip_files) :
                /\ HoldsSubUnitOf(k, i) /\ ~DefinesKey(k, i)
                /\ nodes[i].files[2] = ip_files[k]

(* an architecture, configuration or package body found in file f whose   *)
(* owner key is not a node                                                 *)
Dangling(f, u) ==
    /\ u.kind \in {"Architecture", "PackageBody"}
    /\ get_node_by_key(nodes, f.library, u.name) = None

(* the parsed files without their dangling units *)
WithoutDangling ==
    [k \in DOMAIN ip_files |->
        LET Kept(u) == ~Dangling(ip_files[k], u) IN
        [file |-> ip_files[k], symbols |-> SelectSeq(Sources[ip_files[k].file], Kept)]]

(* C16: a package body, architecture or configuration whose owner key is  *)
(* not a node after pass 1 is dropped without an error: the nodes, their   *)
(* file lists and the edges are those of the input without that unit.      *)
C16_DanglingUnitsDropped ==
    pc = "select" =>
        LET g == references(sub_units(package_bodies(read_files(NewGraph, WithoutDangling)))) IN
        /\ err = NoError
        /\ nodes = g.nodes
        /\ edges = g.edges

(* a graph built from files that hold a package body without its package  *)
(* and an architecture without its entity, next to units that have owners  *)
C16_Witness ==
    /\ pc = "select"
    /\ nodes # << >>
    /\ \E k \in 1..Len(bodies) :
          get_node_by_key(nodes, bodies[k].lib, bodies[k].body.name) = None
    /\ \E k \in 1..Len(sub_nodes) :
          /\ get_node_by_key(nodes, sub_nodes[k].lib, sub_nodes[k].sub.name) = None
          /\ sub_nodes[k].sub.edges # {}
          /\ \E i \in Indices(nodes) : nodes[i].name = sub_nodes[k].sub.name

(* file k of the list declares an entity named n *)
DeclaresEntity(k, n) ==
    \E j \in DOMAIN Sources[ip_files[k].file] :
        Sources[ip_files[k].file][j] = Entity(n)

(* the library of the last file of the list that declares an entity n *)
LastLibraryOf(n) ==
    IF \E k \in 1..Len(ip_files) : DeclaresEntity(k, n)
    THEN ip_files[CHOOSE k \in 1..Len(ip_files) :
                     /\ DeclaresEntity(k, n)
                     /\ \A j \in (k + 1)..Len(ip_files) : ~DeclaresEntity(j, n)].library
    ELSE NoLib

(* the keys the dependencies of a sub-unit stand for *)
SourcesOf(s) ==
    { d \in s.sub.edges : d.prefix # NoLib }
    \cup { CompoundIdentifier(LastLibraryOf(d.suffix), d.suffix) :
             d \in { x \in s.sub.edges : x.prefix = NoLib /\ LastLibraryOf(x.suffix) # NoLib } }
    \cup s.sub.refs

ExpectedEdges ==
    { e \in Indices(nodes) \X Indices(nodes) :
        \/ KeyOf(e[1]) \in nodes[e[2]].refs
        \/ \E k \in SubUnitsOf(e[2]) : KeyOf(e[1]) \in SourcesOf(sub_nodes[k]) }

(* C17: a component n without prefix in an architecture of E gives the    *)
(* edge (L, n) -> E, L being the library of the last file of the input     *)
(* that declares an entity n, whichever file holds the architecture; it    *)
(* gives no edge when no file declares an entity n.  A dependency with a   *)
(* prefix gives the edge dep -> E whatever component_pairs holds.  The      *)
(* graph has no edge besides these and those of the references.            *)
C17_ComponentEdges ==
    GraphBuilt =>
        /\ \A n \in Names : component_pairs[n] = LastLibraryOf(n)
        /\ edges = ExpectedEdges

(* an entity is declared in two libraries and instantiated as a component *)
(* by an architecture of a file read before the last declaration: the      *)
(* edge comes from the later library's entity                              *)
C17_Witness ==
    /\ pc = "select"
    /\ \E j, k \in 1..Len(ip_files) : \E n \in Names :
          /\ j < k /\ DeclaresEntity(j, n) /\ DeclaresEntity(k, n)
          /\ ip_files[j].library # ip_files[k].library
          /\ \E b \in Indices(nodes) : \E s \in SubUnitsOf(b) :
                /\ sub_nodes[s].file = ip_files[j]
                /\ CompoundIdentifier(NoLib, n) \in sub_nodes[s].sub.edges
                /\ <<get_node_by_key(nodes, ip_files[k].library, n), b>> \in edges
                /\ <<get_node_by_key(nodes, ip_files[j].library, n), b>> \notin edges

(* node i depends on itself: a path of one or more edges leads from i to i *)
OnCycle(i) == i \in ancestors(edges, predecessors(edges, i))

(* C18: the HDL graph is acyclic for every input: no node has an edge to  *)
(* itself and no path of edges returns to its start, also when an          *)
(* architecture refers to its own entity or two entities instantiate each  *)
(* other.                                                                  *)
C18_Acyclic ==
    GraphBuilt => \A i \in Indices(nodes) : ~OnCycle(i)

(* C18, the case of two units: no two distinct nodes depend on each other *)
C18_NoMutualDependency ==
    GraphBuilt =>
        \A i, j \in Indices(nodes) :
            (<<i, j>> \in edges /\ <<j, i>> \in edges) => i = j

(* the number of blueprint lines of the first m - 1 nodes of the order *)
RECURSIVE LinesBefore(_)
LinesBefore(m) ==
    IF m <= 1 THEN 0 ELSE LinesBefore(m - 1) + Len(nodes[min_order[m - 1]].files)

(* the nodes of the order that hold file f *)
IncludedHolders(f) ==
    { m \in 1..Len(min_order) :
        \E p \in 1..Len(nodes[min_order[m]].files) : nodes[min_order[m]].files[p] = f }

(* C19: the HDL lines of the blueprint are the files of the first node of *)
(* the order in stored order, then those of the second, and so on; a file  *)
(* has one line for each node of the order that holds it and none when no  *)
(* node of the order holds it; each line carries VHDL-RTL or VHDL-SIM and   *)
(* the library of its file.                                                *)
C19_BlueprintFiles ==
    (pc = "env" /\ blueprint_written) =>
        /\ Len(blueprint) = LinesBefore(Len(min_order) + 1)
        /\ \A m \in 1..Len(min_order) : \A p \in 1..Len(nodes[min_order[m]].files) :
              LET f == nodes[min_order[m]].files[p]
                  line == blueprint[LinesBefore(m) + p] IN
              /\ line.file = f.file /\ line.library = f.library
              /\ line.tag = IF is_rtl(f) THEN "VHDL-RTL" ELSE "VHDL-SIM"
        /\ \A f \in IpFiles :
              Cardinality({ k \in 1..Len(blueprint) :
                              blueprint[k].file = f.file /\ blueprint[k].library = f.library })
                  = Cardinality(IncludedHolders(f))

(* a plan without --all whose order has two nodes of one file, so that    *)
(* the file has two lines, and leaves out a node whose file has none       *)
C19_Witness ==
    /\ pc = "env" /\ plan.all = FALSE
    /\ \E j, k \in 1..Len(blueprint) : j < k /\ blueprint[j] = blueprint[k]
    /\ \E i \in Indices(nodes) :
          /\ \A m \in 1..Len(min_order) : min_order[m] # i
          /\ \A k \in 1..Len(blueprint) : hdl_line(nodes[i].files[1]) # blueprint[k]
    /\ \E m \in 1..Len(min_order) : Len(nodes[min_order[m]].files) > 1

(* the nodes that lead to node n along the edges, and n itself *)
RECURSIVE descendants(_, _)
descendants(es, seen) ==
    LET more == UNION { successors(es, i) : i \in seen } IN
    IF more \subseteq seen THEN seen ELSE descendants(es, seen \cup more)

DependenciesOf(n) == { i \in Indices(nodes) : n \in descendants(edges, {i}) }

Emitted == { min_order[k] : k \in 1..Len(min_order) }

(* the order lists each of its nodes once, a dependency before its user *)
IsTopologicalOrderOf(order, set) ==
    /\ { order[k] : k \in 1..Len(order) } = set
    /\ Len(order) = Cardinality(set)
    /\ \A k, l \in 1..Len(order) : <<order[k], order[l]>> \in edges => k < l

(* C20: with --all the emitted order is a topological order of the whole  *)
(* graph; without it, a topological order of exactly the nodes the seed    *)
(* depends on and the seed, the seed being bench when it is set and top    *)
(* otherwise.  In the blueprint the files of a dependency come before the  *)
(* files of a unit that uses it.                                           *)
C20_EmittedOrder ==
    (plan.only_lock = FALSE /\ pc \in {"blueprint", "env", "done"}) =>
        /\ IF plan.all
           THEN IsTopologicalOrderOf(min_order, Indices(nodes))
           ELSE LET seed == IF bench # None THEN bench ELSE top IN
                /\ seed # None
                /\ IsTopologicalOrderOf(min_order, DependenciesOf(seed))
        /\ blueprint_written =>
              \A k, l \in 1..Len(min_order) :
                  <<min_order[k], min_order[l]>> \in edges =>
                      \A p \in 1..Len(nodes[min_order[k]].files),
                         q \in 1..Len(nodes[min_order[l]].files) :
                          /\ blueprint[LinesBefore(k) + p] = hdl_line(nodes[min_order[k]].files[p])
                          /\ blueprint[LinesBefore(l) + q] = hdl_line(nodes[min_order[l]].files[q])
                          /\ LinesBefore(k) + p < LinesBefore(l) + q

(* a plan without --all with top and bench set: the order holds the bench, *)
(* the top and what they depend on, and leaves another node out            *)
C20_Witness ==
    /\ pc = "done" /\ plan.all = FALSE /\ plan.only_lock = FALSE
    /\ top # None /\ bench # None
    /\ Len(min_order) >= 2 /\ min_order[Len(min_order)] = bench
    /\ Emitted # Indices(nodes)
    /\ blueprint_written

(* ---- the lock file ---- *)
(* run has called write_lockfile: on the --lock-only path, or after the    *)
(* selection of a full plan                                                *)
LockStepTaken ==
    \/ plan.only_lock /\ pc = "done"
    \/ ~plan.only_lock /\ err = NoError
          /\ pc \in {"sort", "panic_sort", "blueprint", "env", "done"}

(* C22: the lock file is written exactly when the lock on disk is not      *)
(* usable or --force is given; with a usable lock and no --force the lock  *)
(* file is left as it is, and nothing writes it before or besides          *)
(* write_lockfile.                                                         *)
C22_LockWrittenIffStaleOrForced ==
    /\ LockStepTaken =>
          (lock_written <=> (invocation.can_use_lock = FALSE \/ invocation.force = TRUE))
    /\ ~LockStepTaken => ~lock_written

(* a full plan forced to rewrite a lock that was usable *)
C22_Witness ==
    /\ pc = "done" /\ ~plan.only_lock /\ err = NoError
    /\ invocation.can_use_lock /\ invocation.force
    /\ lock_written

(* a plan that left its usable lock alone *)
C22_WitnessKept ==
    /\ pc = "done" /\ ~plan.only_lock /\ err = NoError /\ blueprint_written
    /\ invocation.can_use_lock /\ ~invocation.force
    /\ ~lock_written

(* C23: a --lock-only run returns success right after write_lockfile: the  *)
(* lock file is written when no usable lock exists, the HDL graph is not   *)
(* built, no top or bench is selected and no selector error is raised, and *)
(* neither the blueprint nor the .env file is written.                     *)
C23_LockOnlyWritesLockAlone ==
    plan.only_lock =>
        /\ pc \in {"clean", "ip_graph", "done"}
        /\ build_path # "created"
        /\ err = NoError
        /\ nodes = << >> /\ edges = {}
        /\ top_a = None /\ bench_a = None /\ top = None /\ bench = None
        /\ min_order = << >>
        /\ ~blueprint_written /\ blueprint = << >>
        /\ env = {}
        /\ (pc = "done" /\ ~invocation.can_use_lock) => lock_written

(* a --lock-only run that asked for a top, gave command-line             *)
(* filesets and a plugin, and returned with the lock written               *)
C23_Witness ==
    /\ plan.only_lock /\ pc = "done"
    /\ ~invocation.can_use_lock /\ lock_written
    /\ plan.top # None /\ plan.filesets # << >> /\ invocation.plug # NoPlugin
    /\ err = NoError /\ ~blueprint_written /\ env = {}

(* ---- the .env file ---- *)
(* a full plan has returned success *)
PlanSucceeded == pc = "done" /\ ~plan.only_lock /\ err = NoError

(* the keys of a set of variables *)
Keys(e) == { v[1] : v \in e }

(* the .env file names the selected units and, exactly when a plugin was   *)
(* given, the plugin                                                       *)
EnvFileNamesSelection ==
    /\ <<"ORBIT_TOP", name_or_empty(nodes, top)>> \in env
    /\ <<"ORBIT_BENCH", name_or_empty(nodes, bench)>> \in env
    /\ (invocation.plug # NoPlugin) => <<"ORBIT_PLUGIN", invocation.plug.alias>> \in env
    /\ "ORBIT_PLUGIN" \in Keys(env) <=> invocation.plug # NoPlugin

(* C24 as stated: after every successful full plan the .env file holds     *)
(* ORBIT_TOP and ORBIT_BENCH with the selected names (empty when unset),   *)
(* ORBIT_PLUGIN exactly when a plugin was given, and always                *)
(* ORBIT_BLUEPRINT=blueprint.tsv.                                          *)
C24_EnvFileHoldsBlueprint ==
    PlanSucceeded =>
        /\ EnvFileNamesSelection
        /\ <<"ORBIT_BLUEPRINT", BLUEPRINT_FILE>> \in env

(* C24 amended: after every successful full plan the .env file holds       *)
(* ORBIT_TOP and ORBIT_BENCH with the selected names (empty when unset),   *)
(* ORBIT_PLUGIN exactly when a plugin was given, and nothing else: not     *)
(* ORBIT_BLUEPRINT.  ORBIT_BLUEPRINT=blueprint.tsv is in every environment *)
(* `orbit env` assembles, whatever the .env file holds, and inside an ip   *)
(* that environment takes in the variables of the .env file.               *)
C24_EnvFileAndEnvironment ==
    /\ PlanSucceeded =>
          /\ EnvFileNamesSelection
          /\ Keys(env) \subseteq {"ORBIT_TOP", "ORBIT_BENCH", "ORBIT_PLUGIN"}
    /\ environment # {} =>
          /\ <<"ORBIT_BLUEPRINT", BLUEPRINT_FILE>> \in environment
          /\ \/ env \subseteq environment
             \/ Keys(env) \cap Keys(environment) = {}

(* a plan with a plugin and a selected top, its .env read by `orbit env`   *)
C24_Witness ==
    /\ PlanSucceeded
    /\ invocation.plug # NoPlugin /\ top # None /\ bench = None
    /\ <<"ORBIT_PLUGIN", "tool">> \in environment
    /\ <<"ORBIT_TOP", nodes[top].name>> \in environment

(* ---- fileset lines of the blueprint ---- *)
HdlTags == {"VHDL-RTL", "VHDL-SIM"}

(* the names of a list of filesets *)
FilesetNames(fsets) == { fsets[k].name : k \in 1..Len(fsets) }

(* the blueprint has a line of the fileset `name` for file f of the listing *)
HasLine(name, f) ==
    \E k \in 1..Len(blueprint) : blueprint[k].tag = name /\ blueprint[k].file = f

(* file f is in the listing of the current directory *)
Listed(f) == \E k \in 1..Len(invocation.current_files) : invocation.current_files[k] = f

(* C21: in a written blueprint every fileset line comes before every       *)
(* VHDL-RTL or VHDL-SIM line and every line of a command-line fileset      *)
(* before every line of a plugin fileset.  A pattern is matched after      *)
(* orbit.top and orbit.bench gave way to the names of the selected units,  *)
(* the empty string for a unit that is not set: CONSTRAINTS (orbit.top     *)
(* then .xdc) lists 1.xdc exactly when the top is unit 1 and .xdc exactly  *)
(* when no top is set, MACROS (orbit.bench then .do) lists 2.do exactly    *)
(* when the bench is unit 2.  A fileset matching no file has no line: PINS *)
(* never, and none when the directory is empty.                            *)
C21_FilesetLines ==
    blueprint_written =>
        /\ \A i, j \in 1..Len(blueprint) :
              (i < j /\ blueprint[i].tag \in HdlTags) => blueprint[j].tag \in HdlTags
        /\ \A i, j \in 1..Len(blueprint) :
              (i < j /\ blueprint[i].tag \in FilesetNames(invocation.plug.filesets))
                  => blueprint[j].tag \notin FilesetNames(plan.filesets)
        /\ \A k \in 1..Len(blueprint) :
              blueprint[k].tag \in HdlTags \cup FilesetNames(plan.filesets)
                                   \cup FilesetNames(invocation.plug.filesets)
        /\ \A f \in 1..Len(DirectoryFiles) :
              /\ HasLine("CONSTRAINTS", f) <=>
                    /\ "CONSTRAINTS" \in FilesetNames(plan.filesets) /\ Listed(f)
                    /\ \/ f = 1 /\ name_or_empty(nodes, top) = 1
                       \/ f = 2 /\ top = None
              /\ HasLine("MACROS", f) <=>
                    /\ "MACROS" \in FilesetNames(plan.filesets) /\ Listed(f)
                    /\ f = 4 /\ name_or_empty(nodes, bench) = 2
              /\ HasLine("SCRIPTS", f) <=>
                    /\ invocation.plug # NoPlugin /\ Listed(f)
                    /\ f = 3
              /\ ~HasLine("PINS", f)
        /\ \A i, j \in 1..Len(blueprint) :
              (i # j /\ blueprint[i].tag \notin HdlTags) => blueprint[i] # blueprint[j]

(* a blueprint with the constraints of the selected top, the macros of the *)
(* selected bench, the plugin's scripts and the files of the design        *)
C21_Witness ==
    /\ blueprint_written /\ pc = "done"
    /\ Len(blueprint) >= 5
    /\ blueprint[1].tag = "MACROS" /\ blueprint[1].file = 4
    /\ blueprint[2].tag = "CONSTRAINTS" /\ blueprint[2].file = 1
    /\ blueprint[3].tag = "SCRIPTS"
    /\ blueprint[4].tag \in HdlTags

(* a blueprint of a plan without a top: the variable gave way to nothing   *)
C21_WitnessUnset ==
    /\ blueprint_written /\ pc = "done" /\ top = None
    /\ HasLine("CONSTRAINTS", 2) /\ ~HasLine("CONSTRAINTS", 1)
    /\ \E k \in 1..Len(blueprint) : blueprint[k].tag \in HdlTags

(* ---- the token stream ---- *)
IsEOF(t) == t.ttype.kind = "EOF"

(* C25: when tokenize has returned, its sequence of tokens is not empty,   *)
(* the last token is EOF and no other token is; for the empty source the   *)
(* sequence is EOF alone.  While tokenize reads, no token is EOF.          *)
C25_EndsWithOneEOF ==
    /\ returned = "yes" =>
          /\ tokens # << >>
          /\ IsEOF(tokens[Len(tokens)])
          /\ \A k \in 1..(Len(tokens) - 1) : ~IsEOF(tokens[k])
          /\ source = << >> => Len(tokens) = 1
    /\ returned # "yes" => \A k \in 1..Len(tokens) : ~IsEOF(tokens[k])

(* a source of several tokens, read to its end *)
C25_Witness ==
    /\ returned = "yes"
    /\ Len(tokens) >= 4
    /\ tokens[1].ttype.kind = "Identifier.Basic"

(* the empty source, read *)
C25_WitnessEmpty ==
    /\ returned = "yes" /\ source = << >>
    /\ tokens = <<Token(VHDLToken("EOF", << >>), Position(1, 1))>>

(* ---- token positions ---- *)
(* the position of the character at offset k of the source, counted from   *)
(* the text alone: one line more for each newline before it, the column    *)
(* counted from the last of them                                           *)
NewlinesBefore(k) == { j \in 1..(k - 1) : j <= Len(source) /\ source[j] = 10 }

PositionOf(k) ==
    LET before == NewlinesBefore(k)
        last == IF before = {} THEN 0 ELSE CHOOSE j \in before : \A i \in before : i <= j IN
    Position(1 + Cardinality(before), k - last)

(* position p is not after position q *)
NotAfter(p, q) == p[1] < q[1] \/ (p[1] = q[1] /\ p[2] <= q[2])

(* the positions of the tokens never step back, and lines count from 1 *)
PositionsAscend ==
    /\ \A k \in 1..Len(tokens) : tokens[k].position[1] >= 1
    /\ \A k \in 1..(Len(tokens) - 1) : NotAfter(tokens[k].position, tokens[k + 1].position)

(* a token pushed while reading is placed at the character the turn began  *)
(* with; EOF is placed one column after the last character                 *)
PlacedAtFirstCharacter ==
    (returned' # "panic" /\ Len(tokens') = Len(tokens) + 1) =>
        tokens'[Len(tokens')].position = PositionOf(Len(source) - Len(chars) + 1)

(* C26: the positions of the tokens are non-decreasing in (line, column),  *)
(* and each token has the position of its first character: lines count     *)
(* from 1, a newline sets the column back to 0 so that the character after *)
(* it has column 1, and the newlines inside a delimited comment count for  *)
(* the lines of the tokens after it.                                       *)
C26_PositionsOfFirstCharacters ==
    []PositionsAscend /\ [][PlacedAtFirstCharacter]_vars

(* a delimited comment holding a newline, and the token after it on line 2 *)
C26_Witness ==
    /\ returned = "yes"
    /\ Len(tokens) = 2
    /\ tokens[1].ttype.kind = "Comment.Delimited"
    /\ \E k \in 1..Len(tokens[1].ttype.text) : tokens[1].ttype.text[k] = 10
    /\ tokens[1].position = Position(1, 1)
    /\ tokens[2].position[1] = 2

(* an identifier right after a newline, at column 1 of line 2 *)
C26_WitnessNewline ==
    /\ returned = "yes"
    /\ \E k \in 1..Len(tokens) :
          /\ tokens[k].ttype.kind = "Identifier.Basic"
          /\ tokens[k].position = Position(2, 1)

(* ---- delimiters ---- *)
(* the longest text at the head of the stream that the delimiter table     *)
(* holds: its length, 0 when the first character is no delimiter           *)
LongestDelimiter(stream) ==
    LET fits == { n \in 1..3 : n <= Len(stream)
                                /\ match_delimiter(SubSeq(stream, 1, n)) # << >> } IN
    IF fits = {} THEN 0 ELSE CHOOSE n \in fits : \A m \in fits : m <= n

(* C27: at a delimiter tokenize takes the longest text the delimiter table *)
(* holds (<<, <>, ??, ?=, ?<= and ?>= are single tokens; ?/ before a       *)
(* character other than = gives ? and then /): the token is the one of     *)
(* that text, exactly its characters are taken from the stream, the column *)
(* advances by their number, and nothing panics.                           *)
C27_GreedyLongestMatch ==
    [][(reading("delimiter") /\ LongestDelimiter(chars) > 0) =>
          LET n == LongestDelimiter(chars) IN
          /\ returned' = "no"
          /\ tokens' = Append(tokens,
                 Token(VHDLToken(match_delimiter(SubSeq(chars, 1, n))[1], << >>),
                       next_col(loc)))
          /\ chars' = SubSeq(chars, n + 1, Len(chars))
          /\ loc' = Position(loc[1], loc[2] + n)]_vars

(* the delimiters of one character, and the longer ones collect_delimiter  *)
(* looks ahead for, are taken whole: every text of the table but <<, <>,   *)
(* ?? and ?=, which come out as two tokens                                 *)
C27_DelimitersTakenWhole ==
    [][(reading("delimiter") /\ LongestDelimiter(chars) > 0
            /\ ~(Len(chars) >= 2
                    /\ <<chars[1], chars[2]>> \in {<<60, 60>>, <<60, 62>>, <<63, 63>>,
                                                   <<63, 61>>, <<63, 47>>})) =>
          LET n == LongestDelimiter(chars) IN
          /\ returned' = "no"
          /\ tokens' = Append(tokens,
                 Token(VHDLToken(match_delimiter(SubSeq(chars, 1, n))[1], << >>),
                       next_col(loc)))
          /\ chars' = SubSeq(chars, n + 1, Len(chars))
          /\ loc' = Position(loc[1], loc[2] + n)]_vars

(* ?/ before a character other than = : collect_delimiter panics *)
C27_NeverPanics ==
    [][reading("delimiter") => returned' = "no"]_vars

(* ---- bit string literals ---- *)
(* the offset in the source of the first character of token k *)
OffsetOf(k) == CHOOSE o \in 1..(Len(source) + 1) : PositionOf(o) = tokens[k].position

(* the digits the source has from offset o on *)
RECURSIVE DigitsFrom(_)
DigitsFrom(o) ==
    IF o <= Len(source) /\ is_digit(source[o]) THEN <<source[o]>> \o DigitsFrom(o + 1)
    ELSE << >>

(* the text the source has between the first double quote at or after      *)
(* offset o and the next one                                               *)
RECURSIVE UpToQuote(_)
UpToQuote(o) ==
    IF o > Len(source) \/ source[o] = DOUBLE_QUOTE THEN << >>
    ELSE <<source[o]>> \o UpToQuote(o + 1)

(* token k is a bit string literal written as digits, if any, a base      *)
(* specifier and a text between two quotes                                 *)
ClosedBitString(k) ==
    /\ tokens[k].ttype.kind = "BitStrLiteral"
    /\ LET o == OffsetOf(k)
           specifier == UpToQuote(o + Len(DigitsFrom(o)))
           opening == o + Len(UpToQuote(o))
           closing == opening + 1 + Len(UpToQuote(opening + 1)) IN
       /\ from_str(specifier) # << >>
       /\ closing <= Len(source)

(* C29: a bit string literal written with a leading integer is one token   *)
(* whose width is that integer, whose base is the base specifier written   *)
(* and whose literal is the text between the quotes; written without       *)
(* leading digits its width is None.                                       *)
C29_BitStringWidth ==
    \A k \in 1..Len(tokens) :
        ClosedBitString(k) =>
            LET o == OffsetOf(k)
                digits == DigitsFrom(o)
                specifier == UpToQuote(o + Len(digits))
                opening == o + Len(digits) + Len(specifier) IN
            /\ tokens[k].ttype.width = IF digits = << >> THEN << >> ELSE parse_usize(digits, 0)
            /\ <<tokens[k].ttype.base>> = from_str(specifier)
            /\ tokens[k].ttype.text = UpToQuote(opening + 1)

(* what holds of them: one token with the base written and the text        *)
(* between the quotes, its width None whether digits lead or not           *)
C29_BitStringWithoutWidth ==
    \A k \in 1..Len(tokens) :
        ClosedBitString(k) =>
            LET o == OffsetOf(k)
                digits == DigitsFrom(o)
                specifier == UpToQuote(o + Len(digits))
                opening == o + Len(digits) + Len(specifier) IN
            /\ tokens[k].ttype.width = << >>
            /\ <<tokens[k].ttype.base>> = from_str(specifier)
            /\ tokens[k].ttype.text = UpToQuote(opening + 1)

(* 1b"1" read to its end: a bit string literal without its width *)
C29_WidthDropped ==
    /\ returned = "yes"
    /\ source = <<49, 98, 34, 49, 34>>
    /\ tokens[1].ttype = BitStrLiteral("B", <<49>>)

(* ---- decimal literals ---- *)
(* C30: no decimal literal is returned whose dot is not followed by a      *)
(* digit (1.; and 1. at the end of the source are rejected), nor one with  *)
(* a second dot or with a dot right after an underline.                    *)
C30_DotNeedsDigits ==
    \A k \in 1..Len(tokens) :
        tokens[k].ttype.kind = "AbstLiteral.Decimal" =>
            LET text == tokens[k].ttype.text
                dots == { j \in 1..Len(text) : text[j] = DOT } IN
            /\ \A j \in dots : j < Len(text) /\ is_digit(text[j + 1])
            /\ Cardinality(dots) <= 1
            /\ \A j \in dots : j > 1 /\ text[j - 1] # UNDERLINE

(* what holds of them: a second dot and a dot right after an underline are *)
(* rejected, by a panic                                                    *)
C30_OneDotAfterDigit ==
    \A k \in 1..Len(tokens) :
        tokens[k].ttype.kind = "AbstLiteral.Decimal" =>
            LET text == tokens[k].ttype.text
                dots == { j \in 1..Len(text) : text[j] = DOT } IN
            /\ Cardinality(dots) <= 1
            /\ \A j \in dots : j > 1 /\ is_digit(text[j - 1])

(* 1.; read to its end with the decimal literal 1. among the tokens *)
C30_DotAccepted ==
    /\ returned = "yes"
    /\ source = <<49, 46, 59>>
    /\ tokens[1].ttype = VHDLToken("AbstLiteral.Decimal", <<49, 46>>)
    /\ tokens[2].ttype.kind = "Terminator"


(* ---- identifiers ---- *)
(* the lower-case letter of a letter of A..Z and of the upper-case letters *)
(* of Latin-1, every other character itself                                *)
LowerCased(c) == IF is_upper(c) THEN c + 32 ELSE c

(* two identifiers the same: of one kind, extended ones with the same      *)
(* text, basic ones of one length and alike character by character once    *)
(* lower-cased                                                             *)
SameIdentifier(x, y) ==
    /\ x.extended = y.extended
    /\ IF x.extended
       THEN x.text = y.text
       ELSE /\ Len(x.text) = Len(y.text)
            /\ \A k \in 1..Len(x.text) : LowerCased(x.text[k]) = LowerCased(y.text[k])

(* C28: eq returns true exactly for two identifiers of one kind that are,  *)
(* extended, of the same text and, basic, of one length and alike          *)
(* character by character after lower-casing A..Z and the upper-case       *)
(* letters of Latin-1 (so a basic identifier never equals an extended      *)
(* one); ne returns the negation of eq; eq is reflexive, symmetric and     *)
(* transitive, and neither panics.                                         *)
C28_IdentifierEquality ==
    compared # << >> =>
        /\ compared[1] = "eq" => compared[2] = <<SameIdentifier(id0, id1)>>
        /\ compared[1] = "ne" => compared[2] = <<~SameIdentifier(id0, id1)>>
        /\ ne(id0, id1) = <<eq(id0, id1) = <<FALSE>>>>
        /\ eq(id0, id0) = <<TRUE>>
        /\ eq(id1, id0) = eq(id0, id1)
        /\ eq(id0, id1) = <<TRUE>> =>
              \A z \in Identifiers : eq(id1, z) = <<TRUE>> => eq(id0, z) = <<TRUE>>

(* two basic identifiers that differ in the case of a Latin-1 letter,      *)
(* compared and found equal                                                *)
C28_Witness ==
    /\ compared = <<"eq", <<TRUE>>>>
    /\ id0 = Identifier(FALSE, <<97, 192>>)
    /\ id1 = Identifier(FALSE, <<65, 224>>)

(* a basic and an extended identifier of one text, found different *)
C28_WitnessKinds ==
    /\ compared = <<"ne", <<TRUE>>>>
    /\ id0 = Identifier(FALSE, <<97>>)
    /\ id1 = Identifier(TRUE, <<97>>)


(* ---- character literals ---- *)
(* C31: a CharLiteral token comes only from an opening single quote, one   *)
(* graphic character and a closing single quote, and holds exactly that    *)
(* character; after anything else (a character that is not graphic, no     *)
(* closing quote, the end of the source right after the opening quote)     *)
(* there is no CharLiteral.                                                *)
C31_CharLiteralOfOneCharacter ==
    \A k \in 1..Len(tokens) :
        tokens[k].ttype.kind = "CharLiteral" =>
            LET o == OffsetOf(k) IN
            /\ o + 2 <= Len(source)
            /\ source[o] = SINGLE_QUOTE
            /\ is_graphic(source[o + 1])
            /\ source[o + 2] = SINGLE_QUOTE
            /\ tokens[k].ttype.text = <<source[o + 1]>>

(* what holds of them: the literal is the one graphic character between    *)
(* two quotes, or empty when the opening quote ends the source             *)
C31_CharLiteralOfOneOrNone ==
    \A k \in 1..Len(tokens) :
        tokens[k].ttype.kind = "CharLiteral" =>
            LET o == OffsetOf(k) IN
            /\ source[o] = SINGLE_QUOTE
            /\ \/ /\ o = Len(source)
                  /\ tokens[k].ttype.text = << >>
               \/ /\ o + 2 <= Len(source)
                  /\ is_graphic(source[o + 1])
                  /\ source[o + 2] = SINGLE_QUOTE
                  /\ tokens[k].ttype.text = <<source[o + 1]>>

(* a' read to its end: an empty character literal among the tokens *)
C31_EmptyCharLiteral ==
    /\ returned = "yes"
    /\ source = <<97, 39>>
    /\ tokens[2].ttype = VHDLToken("CharLiteral", << >>)
    /\ tokens[2].position = Position(1, 2)


(* ---- enclosed texts ---- *)
(* the `br`s that stand one after another in s and end at index i *)
RunEndingAt(br, s, i) ==
    LET others == { j \in 1..i : s[j] # br }
        last == IF others = {} THEN 0 ELSE CHOOSE j \in others : \A h \in others : h <= j IN
    i - last

(* the index in s of the closing `br`: the first `br` with no `br` right   *)
(* after it that is not the second of a doubled `br`; 0 when s has none    *)
ClosingOf(br, s) ==
    LET closes == { i \in 1..Len(s) :
                       /\ s[i] = br
                       /\ i = Len(s) \/ s[i + 1] # br
                       /\ RunEndingAt(br, s, i) % 2 = 1 } IN
    IF closes = {} THEN 0 ELSE CHOOSE i \in closes : \A j \in closes : i <= j

(* a text with every doubled `br` made one *)
RECURSIVE Collapsed(_, _)
Collapsed(br, s) ==
    IF s = << >> THEN << >>
    ELSE IF Head(s) = br THEN <<br>> \o Collapsed(br, Tail(Tail(s)))
    ELSE <<Head(s)>> \o Collapsed(br, Tail(s))

(* tokenize is at a double quote or a backslash, about to call enclose *)
AtEnclosed == reading("str_literal") \/ reading("extended_identifier")

(* enclose has returned the text before the closing `br` of the stream,    *)
(* taken the closing `br` and no more, and moved the column by as much     *)
EnclosedUpTo(n) ==
    LET br == Head(chars)
        s == Tail(chars)
        got == enclose(br, s, next_col(loc)) IN
    /\ got.tag = "Some"
    /\ got.tk = Collapsed(br, SubSeq(s, 1, n - 1))
    /\ got.chars = SubSeq(s, n + 1, Len(s))
    /\ got.loc = Position(loc[1], loc[2] + 1 + n)

(* C37: enclose(br, stream) returns the characters up to the first `br`    *)
(* that is not followed by another `br`, every doubled `br` made one; it   *)
(* takes the closing `br` and nothing after it, and the column advances by *)
(* the number of characters taken.                                         *)
C37_EncloseUpToClosing ==
    (AtEnclosed /\ ClosingOf(Head(chars), Tail(chars)) > 0) =>
        EnclosedUpTo(ClosingOf(Head(chars), Tail(chars)))

(* C37, amended: so it is when every character up to the closing `br` is   *)
(* graphic; with a character among them that is not, enclose panics.       *)
C37_EncloseGraphicUpToClosing ==
    (AtEnclosed /\ ClosingOf(Head(chars), Tail(chars)) > 0) =>
        LET n == ClosingOf(Head(chars), Tail(chars)) IN
        IF \A j \in 1..n : is_graphic(chars[j + 1])
        THEN EnclosedUpTo(n)
        ELSE enclose(Head(chars), Tail(chars), next_col(loc)).tag = "Panic"

(* """a" read: the string literal "a, the doubled quote made one *)
C37_Witness ==
    /\ source = <<34, 34, 34, 97, 34>>
    /\ chars = << >>
    /\ tokens = <<Token(VHDLToken("StrLiteral", <<34, 97>>), Position(1, 1))>>
    /\ loc = Position(1, 5)

(* "a" then a backslash: the closing quote taken and nothing after it *)
C37_WitnessRest ==
    /\ source = <<34, 97, 34, 92>>
    /\ chars = <<92>>
    /\ tokens = <<Token(VHDLToken("StrLiteral", <<97>>), Position(1, 1))>>
    /\ loc = Position(1, 3)


(* ---- the seed of the minimal sort ---- *)
(* C36: once detect_bench and detect_top have returned without an error    *)
(* and --all is not given, top is set, so the minimal topological sort has *)
(* its seed; so it is for every graph, the empty working library, the one  *)
(* whose only root is a package and the one without a root among them.     *)
C36_TopSetAfterSelection ==
    (plan.only_lock = FALSE /\ plan.all = FALSE /\ pc \in AfterDetectTop) =>
        top # None

(* what holds: after a selection without --all either top is set, or       *)
(* neither unit is and run panics at the seed of the sort                  *)
C36_TopSetOrNeither ==
    (plan.only_lock = FALSE /\ plan.all = FALSE /\ pc \in AfterDetectTop) =>
        \/ top # None
        \/ /\ top = None /\ bench = None
           /\ pc \in {"cross_check", "write_lockfile", "sort", "panic_sort"}

(* the empty working library, no --top, no --bench, no --all: run has      *)
(* panicked at top.unwrap()                                                *)
C36_NoSeed ==
    /\ pc = "panic_sort"
    /\ nodes = << >>
    /\ plan.all = FALSE /\ plan.top = None /\ plan.bench = None
    /\ top = None /\ bench = None


(* ---- the order of the steps of run ---- *)
(* positions at which run has failed in the selection or the cross-check *)
FailedInSelection ==
    {"err_detect_bench", "err_detect_top", "err_cross_check",
     "panic_detect_top", "panic_cross_check"}

(* positions before the lock file step of a full plan *)
BeforeLockStep ==
    {"clean", "ip_graph", "detect_bench", "detect_top", "cross_check"} \cup FailedInSelection

(* C39: a plan that is not --lock-only removes the build directory (with   *)
(* --clean) before the graphs are made, writes the lock file only after    *)
(* the selection and the cross-check, the blueprint only after the lock    *)
(* file step and the .env only after the blueprint.  A plan that fails in  *)
(* the selection or the cross-check has written no lock file, blueprint or *)
(* .env, and with --clean has left no build directory behind.              *)
C39_StepsInOrder ==
    plan.only_lock = FALSE =>
        /\ (pc # "clean" /\ plan.clean) =>
              build_path = IF blueprint_written THEN "created" ELSE "missing"
        /\ pc \in BeforeLockStep => lock_written = FALSE
        /\ pc \in BeforeLockStep \cup {"write_lockfile", "sort", "panic_sort", "blueprint"}
              => blueprint_written = FALSE /\ blueprint = << >>
        /\ env # {} => blueprint_written /\ pc = "done"
        /\ pc \in FailedInSelection =>
              /\ lock_written = FALSE /\ blueprint_written = FALSE /\ env = {}
              /\ plan.clean => build_path = "missing"

(* a plan with --clean that failed in the cross-check: no build directory *)
(* and nothing written                                                     *)
C39_Witness ==
    /\ pc = "err_cross_check"
    /\ plan.only_lock = FALSE /\ plan.clean = TRUE
    /\ build_path = "missing"
    /\ NoCli
    /\ invocation.can_use_lock = FALSE
    /\ lock_written = FALSE /\ blueprint_written = FALSE /\ env = {}

(* a plan with --clean that went through: the directory made anew *)
C39_WitnessDone ==
    /\ pc = "done"
    /\ plan.only_lock = FALSE /\ plan.clean = TRUE
    /\ build_path = "created"
    /\ lock_written /\ blueprint_written /\ env # {}


(* ======================================================================= *)
(* the command line                                                        *)
(* ======================================================================= *)
(* the arguments after the program name; argument number i, counted from   *)
(* 0 as tokenize does, is Given[i + 1]                                     *)
Given == Tail(args)

(* the place in Given of the first bare --, 0 when there is none *)
TerminatorAt ==
    LET bare == { k \in 1..Len(Given) : Given[k] = <<45, 45>> } IN
    IF bare = {} THEN 0 ELSE CHOOSE k \in bare : \A j \in bare : k <= j

(* the arguments after the terminator *)
Later == IF TerminatorAt = 0 THEN << >> ELSE SubSeq(Given, TerminatorAt + 1, Len(Given))

(* the last tokens of c are the Ignore tokens of the arguments after the   *)
(* terminator, each with its text and its number, none taken               *)
Ignored(c) ==
    /\ Len(c.tokens) >= Len(Later)
    /\ \A j \in 1..Len(Later) :
          c.tokens[Len(c.tokens) - Len(Later) + j]
              = CliToken("Ignore", TerminatorAt + j - 1, Later[j])

(* no location of the store is one of these tokens *)
NotInStore(c) ==
    \A key \in DOMAIN c.opt_store :
        \A k \in 1..Len(c.opt_store[key]) :
            c.opt_store[key][k] + 1 <= Len(c.tokens) - Len(Later)

(* every token comes from an argument after the program name *)
ProgramNameSkipped(c) ==
    /\ Len(args) = 1 => c.tokens = << >>
    /\ c.tokens # << >> => c.tokens[1].at = 0
    /\ \A p \in 1..Len(c.tokens) :
          LET t == c.tokens[p] IN
          /\ t.at + 2 <= Len(args)
          /\ t.kind \in {"UnattachedArgument", "Ignore"} => t.text = args[t.at + 2]
          /\ t.kind = "Terminator" => args[t.at + 2] = <<45, 45>>
          /\ t.kind = "Flag" => starts_with(args[t.at + 2], <<45, 45>>)
          /\ t.kind = "Switch" => starts_with(args[t.at + 2], <<45>>)

C32_WitnessProgramName ==
    /\ args = << <<111>>, <<120>> >>
    /\ answer.op = "next_uarg" /\ answer.some /\ answer.text = <<120>>
    /\ served = <<0>>


(* ---- flags and options on the command line ---- *)
(* the text of an argument before its first =, and whether it has one *)
OptionPart(arg) == IF split_once(arg) = << >> THEN arg ELSE split_once(arg)[1][1]

HasValue(arg) == split_once(arg) # << >>

(* place k of Given is before the terminator *)
BeforeTerminator(k) == TerminatorAt = 0 \/ k < TerminatorAt

(* the options written on the command line before the terminator: the long *)
(* option of argument k (j = 0) and the j-th switch of argument k, each    *)
(* with its name and with whether a =value is attached to it               *)
Occurrences ==
    { [k |-> k, j |-> 0, name |-> SubSeq(OptionPart(Given[k]), 3, Len(OptionPart(Given[k]))),
       valued |-> HasValue(Given[k])] :
         k \in { k \in 1..Len(Given) :
                    /\ BeforeTerminator(k)
                    /\ starts_with(Given[k], <<45, 45>>)
                    /\ Len(OptionPart(Given[k])) > 2 } }
    \cup
    UNION { { [k |-> k, j |-> j, name |-> <<OptionPart(Given[k])[j + 1]>>,
               valued |-> HasValue(Given[k]) /\ j + 1 = Len(OptionPart(Given[k]))] :
                 j \in 1..(Len(OptionPart(Given[k])) - 1) } :
            k \in { k \in 1..Len(Given) :
                       /\ BeforeTerminator(k)
                       /\ starts_with(Given[k], <<45>>)
                       /\ ~starts_with(Given[k], <<45, 45>>) } }

(* the occurrences of f: its long name written --name, its switch written  *)
(* in a group of switches                                                  *)
OccurrencesOf(f) ==
    { o \in Occurrences :
        \/ o.j = 0 /\ o.name = f.name
        \/ o.j > 0 /\ f.switch # << >> /\ o.name = f.switch }

(* the occurrences the option store files under the name or the switch of  *)
(* f, long option or switch alike                                          *)
StoredUnder(f) ==
    { o \in Occurrences : o.name = f.name \/ (f.switch # << >> /\ o.name = f.switch) }

(* what check_flag is to answer for the occurrences S of a flag *)
FlagAnswer(a, S) ==
    IF S = {} THEN a.tag = "Ok" /\ a.bool = FALSE
    ELSE IF \E o \in S : o.valued
    THEN a.tag = "UnexpectedValue" \/ (Cardinality(S) > 1 /\ a.tag = "DuplicateOptions")
    ELSE IF Cardinality(S) = 1 THEN a.tag = "Ok" /\ a.bool = TRUE
    ELSE a.tag = "DuplicateOptions"

(* the unattached arguments still in the token vector *)
Unattached(c) ==
    { p \in 1..Len(c.tokens) : c.tokens[p].kind = "UnattachedArgument" }

(* the first call of check_flag or check_option on the Cli *)
FirstAsked(op) == answer # NoAnswer /\ asked = {} /\ answer'.op = op

(* C33: check_flag(f) returns Ok(false) when neither --name nor the switch *)
(* of f is written before the terminator, Ok(true) when they are written   *)
(* once in all and without =value, DuplicateOptions when more than once,   *)
(* UnexpectedValue when one of them has a =value; it takes no unattached   *)
(* argument out of the tokens.                                             *)
C33_CheckFlag ==
    [][FirstAsked("check_flag") =>
          /\ FlagAnswer(answer', OccurrencesOf(answer'.who))
          /\ Unattached(cli') = Unattached(cli)]_vars

(* what holds: so it is with the occurrences counted as the store files    *)
(* them, a long option --v being taken for the switch v and a switch v for *)
(* the long name v                                                         *)
C33_CheckFlagByStoreKey ==
    [][FirstAsked("check_flag") =>
          /\ FlagAnswer(answer', StoredUnder(answer'.who))
          /\ Unattached(cli') = Unattached(cli)]_vars

(* orbit --v: check_flag for vb with the switch v has answered Ok(true) *)
C33_LongTakenForSwitch ==
    /\ args = << <<111>>, <<45, 45, 118>> >>
    /\ asked = { Flag(<<118, 98>>, <<118>>) }
    /\ answer.op = "check_flag" /\ answer.tag = "Ok" /\ answer.bool = TRUE


(* the value written for the occurrence o: its =value, or the unattached   *)
(* argument directly after it that is before the terminator and was not    *)
(* served as a positional; << >> when there is neither                     *)
ValueOf(o, taken) ==
    LET arg == Given[o.k] IN
    IF o.valued THEN <<split_once(arg)[1][2]>>
    ELSE IF /\ ~HasValue(arg)
            /\ o.j + 1 = Len(arg) \/ o.j = 0
            /\ o.k + 1 <= Len(Given)
            /\ BeforeTerminator(o.k + 1)
            /\ Given[o.k + 1] # <<45, 45>>
            /\ ~starts_with(Given[o.k + 1], <<45>>)
            /\ \A n \in 1..Len(taken) : taken[n] # o.k
    THEN <<Given[o.k + 1]>>
    ELSE << >>

(* what check_option is to answer for the occurrences S of an option *)
OptionAnswer(a, S, taken) ==
    IF S = {} THEN a.tag = "Ok" /\ a.some = FALSE
    ELSE IF Cardinality(S) > 1 THEN a.tag = "DuplicateOptions"
    ELSE LET value == ValueOf(CHOOSE o \in S : TRUE, taken) IN
         IF value = << >> THEN a.tag = "ExpectingValue"
         ELSE IF parse(value[1]) = << >> THEN a.tag = "BadType"
         ELSE a.tag = "Ok" /\ a.some = TRUE /\ a.number = parse(value[1])[1]

(* C34: check_option(o) returns Ok(None) when neither --name nor the       *)
(* switch of o is written before the terminator, DuplicateOptions when     *)
(* they are written more than once in all, ExpectingValue when once with   *)
(* neither a =value nor an unattached argument directly after, BadType     *)
(* when that value does not parse, and Ok(Some(the parsed value))          *)
(* otherwise.                                                              *)
C34_CheckOption ==
    [][FirstAsked("check_option") =>
          OptionAnswer(answer', OccurrencesOf(answer'.who), served)]_vars

(* what holds: so it is with the occurrences counted as the store files    *)
(* them                                                                    *)
C34_CheckOptionByStoreKey ==
    [][FirstAsked("check_option") =>
          OptionAnswer(answer', StoredUnder(answer'.who), served)]_vars

(* orbit --v 1: check_option for vb with the switch v has answered         *)
(* Ok(Some(1))                                                             *)
C34_LongTakenForSwitch ==
    /\ args = << <<111>>, <<45, 45, 118>>, <<49>> >>
    /\ asked = { Flag(<<118, 98>>, <<118>>) }
    /\ answer.op = "check_option" /\ answer.tag = "Ok"
    /\ answer.some = TRUE /\ answer.number = 1


(* the numbers of the unattached arguments before the terminator, as the   *)
(* tokens number them (the argument after the program name is 0)           *)
UnattachedArgs ==
    { k - 1 : k \in { k \in 1..Len(Given) :
                         /\ BeforeTerminator(k)
                         /\ Given[k] # <<45, 45>>
                         /\ ~starts_with(Given[k], <<45>>) } }

(* the unattached arguments that remain in the tokens *)
Remaining(c) ==
    { n \in UnattachedArgs :
        \E p \in 1..Len(c.tokens) :
            c.tokens[p].kind = "UnattachedArgument" /\ c.tokens[p].at = n }

(* the unattached arguments check_option has taken as the value of an      *)
(* option: those no longer in the tokens that were not served              *)
TakenAsValue(c, sv) ==
    { n \in UnattachedArgs \ Remaining(c) : \A k \in 1..Len(sv) : sv[k] # n }

(* a call of next_uarg or of check_positional *)
Positional == answer # NoAnswer /\ answer'.op \in {"next_uarg", "check_positional"}

(* C35: a call of next_uarg or check_positional returns the first          *)
(* unattached argument before the terminator that was not consumed, and    *)
(* takes it; it returns None when none remains; so the arguments served    *)
(* are in the order of the command line, each once, and none of them is an *)
(* argument check_option has taken as the value of an option.              *)
C35_PositionalsInOrder ==
    [][Positional =>
          /\ IF Remaining(cli) = {}
             THEN /\ answer'.some = FALSE /\ answer'.tag = "Ok"
                  /\ served' = served /\ cli' = cli
             ELSE LET n == CHOOSE n \in Remaining(cli) :
                                \A m \in Remaining(cli) : n <= m IN
                  /\ served' = Append(served, n)
                  /\ Remaining(cli') = Remaining(cli) \ {n}
                  /\ TakenAsValue(cli', served') = TakenAsValue(cli, served)
                  /\ answer'.op = "next_uarg" =>
                        answer'.some = TRUE /\ answer'.text = Given[n + 1]
                  /\ answer'.op = "check_positional" =>
                        IF parse(Given[n + 1]) = << >> THEN answer'.tag = "BadType"
                        ELSE /\ answer'.some = TRUE
                             /\ answer'.number = parse(Given[n + 1])[1]
          /\ \A j, k \in 1..Len(served') : j < k => served'[j] < served'[k]
          /\ \A k \in 1..Len(served') :
                served'[k] \in UnattachedArgs \ TakenAsValue(cli, served)]_vars

(* orbit -v x 1: check_option has taken x as the value of -v, and the     *)
(* next positional served was 1                                            *)
C35_Witness ==
    /\ answer # NoAnswer
    /\ Len(args) = 4 /\ args[2] = <<45, 118>>
    /\ args[3] = <<120>> /\ args[4] = <<49>>
    /\ TakenAsValue(cli, served) = {1}
    /\ served = <<2>>
    /\ answer.op = "check_positional" /\ answer.some = TRUE /\ answer.number = 1

(* two positionals served in order, and None after them *)
C35_WitnessNone ==
    /\ answer # NoAnswer
    /\ served = <<0, 1>>
    /\ answer.op = "next_uarg" /\ answer.some = FALSE
    /\ UnattachedArgs = {0, 1}


(* every location in the option store is an index of the token vector *)
StoreValid(c) ==
    \A key \in DOMAIN c.opt_store :
        \A k \in 1..Len(c.opt_store[key]) :
            c.opt_store[key][k] + 1 \in 1..Len(c.tokens)

(* the tokens of c that are taken out are taken out of d as well *)
StaysTaken(c, d) ==
    \A p \in 1..Len(c.tokens) : c.tokens[p] = Taken => d.tokens[p] = Taken

(* C38: after tokenize the token vector keeps its length, a token taken    *)
(* stays taken, and every location in the store is an index of the vector; *)
(* check_flag or check_option called for a flag it was called for before   *)
(* returns Ok(false) or Ok(None), whatever it returned the first time.     *)
C38_ConsumedOnce ==
    [][/\ StoreValid(cli')
       /\ answer # NoAnswer =>
             /\ Len(cli'.tokens) = Len(cli.tokens)
             /\ StaysTaken(cli, cli')
             /\ (answer'.op \in {"check_flag", "check_option"} /\ answer'.who \in asked) =>
                   /\ answer'.tag = "Ok" /\ ~answer'.bool /\ ~answer'.some
                   /\ cli' = cli]_vars

(* orbit --vb=1: the option vb asked for again, Ok(None) for an option     *)
(* written on the command line, both its tokens taken and the vector still *)
(* of length 2                                                             *)
C38_Witness ==
    /\ args = << <<111>>, <<45, 45, 118, 98, 61, 49>> >>
    /\ answer.op = "check_option" /\ answer.who = Flag(<<118, 98>>, <<118>>)
    /\ answer.tag = "Ok" /\ ~answer.some
    /\ cli.tokens = <<Taken, Taken>>


(* the versions of the table t, and the body formatted from it *)
VersionsIn(list) == { list[k] : k \in 1..Len(list) }

AllVersions(t) ==
    { t.dev[k] : k \in 1..Len(t.dev) } \cup VersionsIn(t.installed) \cup VersionsIn(t.available)

Body == rows[1].body

(* every version once and from the greatest down *)
EveryVersionOnce ==
    /\ { Body[k].ver : k \in 1..Len(Body) } = AllVersions(table)
    /\ \A j, k \in 1..Len(Body) : j < k => Body[j].ver > Body[k].ver

(* C40: the body of the version table has a row for every version of the   *)
(* dev, installed and available inputs, each once, from the greatest       *)
(* version down, marked D iff it is the dev version, I iff it is in the    *)
(* installed list and A iff it is in the available list.                   *)
C40_VersionTable ==
    rows # << >> =>
        /\ EveryVersionOnce
        /\ \A k \in 1..Len(Body) :
              /\ Body[k].D = "D" <=> table.dev = <<Body[k].ver>>
              /\ Body[k].I = "I" <=> Body[k].ver \in VersionsIn(table.installed)
              /\ Body[k].A = "A" <=> Body[k].ver \in VersionsIn(table.available)

(* what holds: the rows and the D mark are as claimed; A marks a version   *)
(* that is in the available list and was not in the map before, I a        *)
(* version that is installed, or available and in the map before           *)
C40_VersionTableAsBuilt ==
    rows # << >> =>
        /\ EveryVersionOnce
        /\ \A k \in 1..Len(Body) :
              LET v == Body[k].ver
                  before == table.dev = <<v>> \/ v \in VersionsIn(table.installed) IN
              /\ Body[k].D = "D" <=> table.dev = <<v>>
              /\ Body[k].I = "I" <=>
                    v \in VersionsIn(table.installed)
                        \/ (v \in VersionsIn(table.available) /\ before)
              /\ Body[k].A = "A" <=> (v \in VersionsIn(table.available) /\ ~before)

(* version 1 installed and available: its row is marked I and not A *)
C40_AvailableMarkedInstalled ==
    /\ table = [dev |-> << >>, installed |-> <<1>>, available |-> <<1>>]
    /\ rows # << >>
    /\ Body = <<[ver |-> 1, D |-> "", I |-> "I", A |-> ""]>>

====
